---- MODULE Spec2Model ----
(***************************************************************************)
(* A model of the CaffQL schema compiler (src/src/CodeGeneration.cpp):     *)
(* the dependency sorter sortCustomTypesByDependencyOrder and the query    *)
(* document builder generateQueryField / generateQueryFields /             *)
(* generateQueryDocument.                                                  *)
(*                                                                         *)
(* A std::string is a sequence of one-character strings, so that prefix    *)
(* tests, case conversion, concatenation and the byte-wise order of        *)
(* std::map<std::string, ...> are computed as the code computes them.      *)
(* A std::optional / BoxedOptional is a sequence of length 0 or 1.         *)
(***************************************************************************)
EXTENDS Integers, Sequences, FiniteSets, TLC

VARIABLES
    types,                \* the argument of sortCustomTypesByDependencyOrder
    typesToDependents,    \* unordered_map<string, unordered_set<string>>
    typesToDependencies,  \* map<string, TypeWithDependencies>
    sortedTypes,          \* vector<Type>, the result under construction
    passes,               \* per finished pass, the type names it appended
    pc,                   \* position in sortCustomTypesByDependencyOrder
    rootField,            \* the Field given to generateQueryDocument
    rootOperation,        \* the Operation given to it
    rootIndentation,      \* the indentation given to it
    typeMap,              \* the TypeMap given to it
    document,             \* the QueryDocument it returned
    qpc,                  \* position of the query builder
    frames,               \* the calls of generateQueryFields that have not returned yet
    typeRef,              \* the TypeRef given to cppTypeName and graphqlTypeName
    cppName,              \* what cppTypeName returned or threw
    graphqlName,          \* what graphqlTypeName returned
    rpc,                  \* position of the type-name renderers
    passing,          \* what shouldPassByReferenceToRequestFunction returned or threw
    unwrapped,            \* what underlyingType returned, once it was called
    schema,               \* the Schema given to generateTypes
    algebraicNamespace,   \* the AlgebraicNamespace given to it
    source,               \* what generateTypes returned or threw
    spc,                  \* position of generateTypes
    declared,             \* the Type whose decoder or encoder is generated
    emitted,              \* the generated text of that decoder or encoder
    payload,              \* the wire value or the value given to the generated code
    outcome,              \* what the generated code returned or threw
    cpc,                  \* position of the run of the generated code
    boxes,                \* the BoxedOptional objects with a name: alive, and their value pointer
    heap,                 \* the cells that new returned so far
    faults,               \* what the last operation did that has no defined behaviour
    last                  \* the last BoxedOptional operation

vars == <<types, typesToDependents, typesToDependencies, sortedTypes, passes, pc,
          rootField, rootOperation, rootIndentation, typeMap, document, qpc,
          typeRef, cppName, graphqlName, rpc,
          schema, algebraicNamespace, source, spc,
          declared, emitted, payload, outcome, cpc,
          passing, unwrapped, frames, boxes, heap, faults, last>>

sortVars == <<types, typesToDependents, typesToDependencies, sortedTypes, passes, pc>>
queryVars == <<rootField, rootOperation, rootIndentation, typeMap, document, qpc, frames>>
renderVars == <<typeRef, cppName, graphqlName, rpc, passing, unwrapped>>
\* the state of the generators of declarations and decoders
schemaVars == <<schema, algebraicNamespace, source, spc>>
codecVars == <<declared, emitted, payload, outcome, cpc>>
genVars == <<renderVars, schemaVars, codecVars>>
boxVars == <<boxes, heap, faults, last>>

-----------------------------------------------------------------------------
(* Bounds of the explored inputs *)

\* most references to other types in one sorter input
MaxEdges == 3
\* most fields of one type in a query builder input
MaxFields == 2
\* most arguments of one field in a query builder input
MaxArgs == 2

-----------------------------------------------------------------------------
(* Characters and strings *)

UpperSeq == <<"A","B","C","D","E","F","G","H","I","J","K","L","M",
              "N","O","P","Q","R","S","T","U","V","W","X","Y","Z">>
LowerSeq == <<"a","b","c","d","e","f","g","h","i","j","k","l","m",
              "n","o","p","q","r","s","t","u","v","w","x","y","z">>

IsUpper(c) == \E i \in DOMAIN UpperSeq : UpperSeq[i] = c
IsLower(c) == \E i \in DOMAIN LowerSeq : LowerSeq[i] = c
LetterIndex(seq, c) == CHOOSE i \in DOMAIN seq : seq[i] = c

\* the value of a char as unsigned char (ASCII), which std::string compares
CharCode(c) ==
    IF IsUpper(c) THEN 64 + LetterIndex(UpperSeq, c)
    ELSE IF IsLower(c) THEN 96 + LetterIndex(LowerSeq, c)
    ELSE IF c = "_" THEN 95
    ELSE 0

toupper(c) == IF IsLower(c) THEN UpperSeq[LetterIndex(LowerSeq, c)] ELSE c
tolower(c) == IF IsUpper(c) THEN LowerSeq[LetterIndex(UpperSeq, c)] ELSE c

\* std::string operator<, the order of the keys of a std::map<std::string, T>
RECURSIVE StringLess(_, _)
StringLess(a, b) ==
    IF b = <<>> THEN FALSE
    ELSE IF a = <<>> THEN TRUE
    ELSE IF CharCode(Head(a)) < CharCode(Head(b)) THEN TRUE
    ELSE IF CharCode(Head(a)) > CharCode(Head(b)) THEN FALSE
    ELSE StringLess(Tail(a), Tail(b))

\* name.rfind("__", 0) == 0
StartsWithDoubleUnderscore(name) ==
    Len(name) >= 2 /\ name[1] = "_" /\ name[2] = "_"

-----------------------------------------------------------------------------
(* The type graph model, CodeGeneration.hpp *)

TypeKind == {"Scalar", "Object", "Interface", "Union", "Enum", "InputObject", "List", "NonNull"}

\* TypeRef{kind, name, ofType}
TypeRef(kind, name, ofType) == [kind |-> kind, name |-> name, ofType |-> ofType]
NamedRef(kind, name) == TypeRef(kind, <<name>>, <<>>)
ListOf(t) == TypeRef("List", <<>>, <<t>>)
NonNullOf(t) == TypeRef("NonNull", <<>>, <<t>>)

InputValue(type, name, description) ==
    [type |-> type, name |-> name, description |-> description]

Field(type, name, description, args) ==
    [type |-> type, name |-> name, description |-> description, args |-> args]

Type(kind, name, fields, inputFields, possibleTypes) ==
    [kind |-> kind, name |-> name, description |-> "",
     fields |-> fields, inputFields |-> inputFields, interfaces |-> <<>>,
     enumValues |-> <<>>, possibleTypes |-> possibleTypes]

\* a value-initialized Type, as std::map::operator[] creates it
DefaultType == Type("Scalar", <<>>, <<>>, <<>>, <<>>)

RECURSIVE underlyingType(_)
\* one wrapper less
ofTypeOrSelf(t) == IF t.ofType # <<>> THEN t.ofType[1] ELSE t

underlyingType(t) ==
    IF t.ofType # <<>> THEN underlyingType(t.ofType[1]) ELSE t

-----------------------------------------------------------------------------
(* sortCustomTypesByDependencyOrder *)

isCustomType(kind) == kind \in {"Object", "Interface", "Union", "Enum", "InputObject"}

RECURSIVE FlattenFieldRefs(_)
\* what the loop over type.fields hands to addDependency, in order
FlattenFieldRefs(fields) ==
    IF fields = <<>> THEN <<>>
    ELSE LET field == Head(fields) IN
         <<underlyingType(field.type)>>
         \o [j \in 1..Len(field.args) |-> underlyingType(field.args[j].type)]
         \o FlattenFieldRefs(Tail(fields))

\* only the field types, without the loop over field.args
FieldTypeRefsOnly(type) ==
    [j \in 1..Len(type.fields) |-> underlyingType(type.fields[j].type)]
    \o [j \in 1..Len(type.inputFields) |-> underlyingType(type.inputFields[j].type)]
    \o type.possibleTypes

\* every TypeRef the three loops of one iteration hand to addDependency
DependencyCandidates(type) ==
    FlattenFieldRefs(type.fields)
    \o [j \in 1..Len(type.inputFields) |-> underlyingType(type.inputFields[j].type)]
    \o type.possibleTypes

\* the guard of addDependency
IsRecordedDependency(dependency) ==
    dependency.name # <<>> /\ isCustomType(dependency.kind)

\* the guard without the test for the "__" prefix
IsSkippedTypeByKindOnly(type) == ~isCustomType(type.kind)

\* the guard of the loop body: metatypes and non custom kinds are skipped
IsSkippedType(type) ==
    ~isCustomType(type.kind) \/ StartsWithDoubleUnderscore(type.name)

\* m[k] of an unordered_map of sets, for a key that may be absent
DependentsOf(m, k) == IF k \in DOMAIN m THEN m[k] ELSE {}

\* one iteration of the loop over types, for a type that is already registered
\* only: a dependency counts only if its type was seen earlier in the list
RegisterTypeSeenOnly(type, g) ==
    IF IsSkippedType(type) THEN g
    ELSE LET cands == DependencyCandidates(type)
             deps == {cands[j].name[1] :
                         j \in {k \in 1..Len(cands) :
                                   /\ IsRecordedDependency(cands[k])
                                   /\ cands[k].name[1] \in DOMAIN g.dependencies}}
         IN [dependents |-> [n \in DOMAIN g.dependents \cup deps |->
                                IF n \in deps
                                THEN DependentsOf(g.dependents, n) \cup {type.name}
                                ELSE g.dependents[n]],
             dependencies |-> (type.name :> [type |-> type, dependencies |-> deps])
                              @@ g.dependencies]

\* one iteration of the loop over types; g = [dependents, dependencies]
RegisterType(type, g) ==
    IF IsSkippedType(type) THEN g
    ELSE LET cands == DependencyCandidates(type)
             deps == {cands[j].name[1] :
                         j \in {k \in 1..Len(cands) : IsRecordedDependency(cands[k])}}
         IN [dependents |-> [n \in DOMAIN g.dependents \cup deps |->
                                IF n \in deps
                                THEN DependentsOf(g.dependents, n) \cup {type.name}
                                ELSE g.dependents[n]],
             dependencies |-> (type.name :> [type |-> type, dependencies |-> deps])
                              @@ g.dependencies]

RECURSIVE BuildGraphFrom(_, _, _)
\* the loop over types from index i on; returns the two maps
BuildGraphFrom(ts, i, g) ==
    IF i > Len(ts) THEN g
    ELSE BuildGraphFrom(ts, i + 1, RegisterType(ts[i], g))

\* the keys of a std::map in iteration order after key `after` (<<>> = begin)
KeysAfter(m, started, after) ==
    {k \in DOMAIN m : ~started \/ StringLess(after, k)}

\* the smallest key of a non-empty key set
FirstKey(keys) == CHOOSE k \in keys : \A other \in keys \ {k} : StringLess(k, other)

\* erase `name` from the dependencies of every dependent; operator[] creates
\* a missing entry
\* the dependency sets are left as they are inside the loop
KeepInDependents(dependencies, dependentNames, name) == dependencies

EraseFromDependents(dependencies, dependentNames, name) ==
    [n \in DOMAIN dependencies \cup dependentNames |->
        IF n \in dependentNames
        THEN IF n \in DOMAIN dependencies
             THEN [dependencies[n] EXCEPT !.dependencies = @ \ {name}]
             ELSE [type |-> DefaultType, dependencies |-> {}]
        ELSE dependencies[n]]

\* ready also when the only dependency left is the type itself
IsReadyIgnoringSelf(entry) == entry.dependencies \subseteq {entry.type.name}

\* the condition under which the pass emits the entry it is visiting
IsReady(entry) == entry.dependencies = {}

RECURSIVE PassFrom(_, _, _)
\* the for loop over typesToDependencies of one pass, from the entry after
\* `after`; st = [dependencies, dependents, sorted, added]
PassFrom(st, started, after) ==
    LET keys == KeysAfter(st.dependencies, started, after) IN
    IF keys = {} THEN st
    ELSE LET k == FirstKey(keys)
             entry == st.dependencies[k]
         IN IF IsReady(entry)
            THEN LET dependentNames == DependentsOf(st.dependents, k)
                     next == [dependencies |-> EraseFromDependents(st.dependencies, dependentNames, k),
                              dependents |-> IF k \in DOMAIN st.dependents
                                             THEN st.dependents
                                             ELSE (k :> {}) @@ st.dependents,
                              sorted |-> Append(st.sorted, entry.type),
                              added |-> Append(st.added, k)]
                 IN PassFrom(next, TRUE, k)
            ELSE PassFrom(st, TRUE, k)

RECURSIVE OrderedKeys(_)
\* the keys of a std::map in iteration order
OrderedKeys(S) ==
    IF S = {} THEN <<>> ELSE LET k == FirstKey(S) IN <<k>> \o OrderedKeys(S \ {k})

EmptyMap == [n \in {} |-> {}]
EmptyGraph == [dependents |-> EmptyMap, dependencies |-> EmptyMap]

\* the same pass without the erasure inside the loop: it emits the entries
\* that were ready when the pass began
RunPassLevelByLevel(dependencies, dependents, sorted) ==
    LET ready == {k \in DOMAIN dependencies : dependencies[k].dependencies = {}}
        added == OrderedKeys(ready)
    IN [dependencies |-> [n \in DOMAIN dependencies \ ready |->
                             [dependencies[n] EXCEPT !.dependencies = @ \ ready]],
        dependents |-> dependents,
        sorted |-> sorted \o [j \in 1..Len(added) |-> dependencies[added[j]].type],
        added |-> added]

\* one iteration of the while loop, up to the erasure of the added names
RunPass(dependencies, dependents, sorted) ==
    LET st == PassFrom([dependencies |-> dependencies, dependents |-> dependents,
                        sorted |-> sorted, added |-> <<>>], FALSE, <<>>)
        addedSet == {st.added[j] : j \in 1..Len(st.added)}
    IN [dependencies |-> [n \in DOMAIN st.dependencies \ addedSet |-> st.dependencies[n]],
        dependents |-> st.dependents,
        sorted |-> st.sorted,
        added |-> st.added]

\* lines 88-120: the graph is built from the whole input list
BuildGraph ==
    /\ pc = "build"
    /\ LET g == BuildGraphFrom(types, 1, EmptyGraph) IN
        /\ typesToDependents' = g.dependents
        /\ typesToDependencies' = g.dependencies
    /\ pc' = "loop"
    /\ UNCHANGED <<types, sortedTypes, passes, queryVars, genVars, boxVars>>

\* lines 124-143 and the negative branch of 144: a pass that removed a node
Pass ==
    /\ pc = "loop"
    /\ DOMAIN typesToDependencies # {}
    /\ LET r == RunPass(typesToDependencies, typesToDependents, sortedTypes) IN
        /\ Cardinality(DOMAIN r.dependencies) # Cardinality(DOMAIN typesToDependencies)
        /\ typesToDependencies' = r.dependencies
        /\ typesToDependents' = r.dependents
        /\ sortedTypes' = r.sorted
        /\ passes' = Append(passes, r.added)
    /\ UNCHANGED <<types, pc, queryVars, genVars, boxVars>>

\* lines 124-146: a pass that leaves the map as large as it was throws
ThrowCircular ==
    /\ pc = "loop"
    /\ DOMAIN typesToDependencies # {}
    /\ LET r == RunPass(typesToDependencies, typesToDependents, sortedTypes) IN
        /\ Cardinality(DOMAIN r.dependencies) = Cardinality(DOMAIN typesToDependencies)
        /\ typesToDependencies' = r.dependencies
        /\ typesToDependents' = r.dependents
        /\ sortedTypes' = r.sorted
        /\ passes' = Append(passes, r.added)
    /\ pc' = "thrown"
    /\ UNCHANGED <<types, queryVars, genVars, boxVars>>

\* line 149
ReturnSorted ==
    /\ pc = "loop"
    /\ DOMAIN typesToDependencies = {}
    /\ pc' = "done"
    /\ UNCHANGED <<types, typesToDependents, typesToDependencies, sortedTypes, passes, queryVars, genVars, boxVars>>

-----------------------------------------------------------------------------
(* Inputs of the sorter: three custom types A, B, C whose references are   *)
(* drawn from all edge sets of at most MaxEdges references, the meta type  *)
(* __M, the built-in scalar Int and nameless List and NonNull entries.     *)

SortNames == << <<"A">>, <<"B">>, <<"C">> >>
MetaName == <<"_", "_", "M">>
IntName == <<"I", "n", "t">>

Sources == DOMAIN SortNames
\* targets of a reference: a custom type, then the meta type, then Int
Targets == 1..(Len(SortNames) + 2)
MetaTarget == Len(SortNames) + 1
IntTarget == Len(SortNames) + 2

PositionSeq == <<"field", "arg", "inputField", "possibleType">>
\* where in its source the reference (i, t) is placed
PositionOf(i, t, r) == PositionSeq[((i + t + r) % Len(PositionSeq)) + 1]

EdgeSets == {E \in SUBSET (Sources \X Targets) : Cardinality(E) <= MaxEdges}

RECURSIVE AscendingSeq(_)
AscendingSeq(S) ==
    IF S = {} THEN <<>>
    ELSE LET m == CHOOSE x \in S : \A y \in S : x <= y IN <<m>> \o AscendingSeq(S \ {m})

TargetsAt(E, r, i, position) ==
    AscendingSeq({t \in Targets : <<i, t>> \in E /\ PositionOf(i, t, r) = position})

\* the kind the schema gives a type with references at these positions
KindOfSource(E, r, i) ==
    LET used == {PositionOf(i, t, r) : t \in {u \in Targets : <<i, u>> \in E}} IN
    IF "possibleType" \in used /\ used \cap {"field", "arg"} # {} THEN "Interface"
    ELSE IF "possibleType" \in used THEN "Union"
    ELSE IF "inputField" \in used THEN "InputObject"
    ELSE IF used # {} THEN "Object"
    ELSE "Enum"

TargetRef(E, r, t) ==
    IF t \in Sources THEN NamedRef(KindOfSource(E, r, t), SortNames[t])
    ELSE IF t = MetaTarget THEN NamedRef("Object", MetaName)
    ELSE NamedRef("Scalar", IntName)

\* references are wrapped as [T!]! or left bare
WrappedRef(E, r, i, t) ==
    IF (i + t) % 2 = 0 THEN NonNullOf(ListOf(NonNullOf(TargetRef(E, r, t))))
    ELSE TargetRef(E, r, t)

SourceType(E, r, i) ==
    LET fieldTargets == TargetsAt(E, r, i, "field")
        argTargets == TargetsAt(E, r, i, "arg")
        inputTargets == TargetsAt(E, r, i, "inputField")
        possibleTargets == TargetsAt(E, r, i, "possibleType")
        args == [j \in 1..Len(argTargets) |->
                    InputValue(WrappedRef(E, r, i, argTargets[j]), <<"x">>, "")]
        fields == IF fieldTargets = <<>>
                  THEN IF argTargets = <<>> THEN <<>>
                       ELSE <<Field(NamedRef("Scalar", IntName), <<"f">>, "", args)>>
                  ELSE [j \in 1..Len(fieldTargets) |->
                           Field(WrappedRef(E, r, i, fieldTargets[j]), <<"f">>, "",
                                 IF j = 1 THEN args ELSE <<>>)]
    IN Type(KindOfSource(E, r, i), SortNames[i], fields,
            [j \in 1..Len(inputTargets) |->
                InputValue(WrappedRef(E, r, i, inputTargets[j]), <<"x">>, "")],
            [j \in 1..Len(possibleTargets) |-> TargetRef(E, r, possibleTargets[j])])

\* entries the sorter has to skip; the meta type refers to a custom type
SkippedEntries(E, r) ==
    << Type("Object", MetaName, <<Field(TargetRef(E, r, 1), <<"f">>, "", <<>>)>>, <<>>, <<>>),
       Type("Scalar", IntName, <<>>, <<>>, <<>>),
       Type("List", <<>>, <<>>, <<>>, <<>>),
       Type("NonNull", <<>>, <<>>, <<>>, <<>>) >>

Bijections(S) == {p \in [S -> S] : \A a, b \in S : p[a] = p[b] => a = b}

\* the custom types in the order p, the skipped entries in front or behind
SortInput(E, r, p, front) ==
    LET custom == [j \in Sources |-> SourceType(E, r, p[j])] IN
    IF front THEN SkippedEntries(E, r) \o custom ELSE custom \o SkippedEntries(E, r)

SortInputs ==
    {SortInput(E, r, p, front) :
        E \in EdgeSets, r \in 0..(Len(PositionSeq) - 1), p \in Bijections(Sources),
        front \in BOOLEAN}

NoField == Field(NamedRef("Scalar", IntName), <<>>, "", <<>>)
NoDocument == [query |-> <<>>, variables |-> <<>>]

\* nothing rendered: no call of cppTypeName or graphqlTypeName was made
NotRendered == [generated |-> <<>>, failed |-> FALSE, what |-> <<>>]

\* no BoxedOptional exists
NoOperation == "none"
BoxIdle ==
    /\ boxes = <<>>
    /\ heap = <<>>
    /\ faults = {}
    /\ last = NoOperation

RenderIdle ==
    /\ typeRef = NamedRef("Scalar", IntName)
    /\ cppName = NotRendered
    /\ graphqlName = <<>>
    /\ rpc = "idle"
    /\ passing = NotRendered
    /\ unwrapped = <<>>

NoSchema == [queryType |-> <<>>, mutationType |-> <<>>, subscriptionType |-> <<>>, types |-> <<>>]

SchemaIdle ==
    /\ schema = NoSchema
    /\ algebraicNamespace = "Std"
    /\ source = NotRendered
    /\ spc = "idle"

CodecIdle ==
    /\ declared = DefaultType
    /\ emitted = <<>>
    /\ payload = <<>>
    /\ outcome = <<>>
    /\ cpc = "idle"

GenIdle == RenderIdle /\ SchemaIdle /\ CodecIdle

QueryIdle ==
    /\ rootField = NoField
    /\ rootOperation = "Query"
    /\ rootIndentation = 0
    /\ typeMap = EmptyMap
    /\ document = NoDocument
    /\ qpc = "idle"
    /\ frames = <<>>

SortInit ==
    /\ types \in SortInputs
    /\ typesToDependents = EmptyMap
    /\ typesToDependencies = EmptyMap
    /\ sortedTypes = <<>>
    /\ passes = <<>>
    /\ pc = "build"
    /\ QueryIdle
    /\ GenIdle
    /\ BoxIdle

SortNext == BuildGraph \/ Pass \/ ThrowCircular \/ ReturnSorted

SortSpec == SortInit /\ [][SortNext]_vars

-----------------------------------------------------------------------------
(* The function as a whole, for comparing runs on different input lists *)

RECURSIVE SortLoop(_, _, _)
\* the while loop: [thrown, sorted], sorted being the returned vector
SortLoop(dependencies, dependents, sorted) ==
    IF DOMAIN dependencies = {} THEN [thrown |-> FALSE, sorted |-> sorted]
    ELSE LET r == RunPass(dependencies, dependents, sorted) IN
         IF Cardinality(DOMAIN r.dependencies) = Cardinality(DOMAIN dependencies)
         THEN [thrown |-> TRUE, sorted |-> <<>>]
         ELSE SortLoop(r.dependencies, r.dependents, r.sorted)

SortOutcome(ts) ==
    LET g == BuildGraphFrom(ts, 1, EmptyGraph) IN SortLoop(g.dependencies, g.dependents, <<>>)

\* what the run of the state machine returned or raised
Outcome == [thrown |-> pc = "thrown", sorted |-> IF pc = "done" THEN sortedTypes ELSE <<>>]

-----------------------------------------------------------------------------
(* Vocabulary of the claims about the sorter, stated on the input list     *)

\* a custom type: custom kind and a name that does not start with "__"
CustomInInput(t) ==
    /\ t.kind \in {"Object", "Interface", "Union", "Enum", "InputObject"}
    /\ ~(Len(t.name) >= 2 /\ SubSeq(t.name, 1, 2) = <<"_", "_">>)

\* the names of the custom-kind types that t refers to
ReferencedNames(t) ==
    LET refs == {underlyingType(t.fields[j].type) : j \in DOMAIN t.fields}
                \cup UNION {{underlyingType(t.fields[j].args[k].type) : k \in DOMAIN t.fields[j].args} :
                               j \in DOMAIN t.fields}
                \cup {underlyingType(t.inputFields[j].type) : j \in DOMAIN t.inputFields}
                \cup {t.possibleTypes[j] : j \in DOMAIN t.possibleTypes}
    IN {r.name[1] : r \in {x \in refs : x.name # <<>>}}

InputTypes == {types[i] : i \in DOMAIN types}
CustomTypes == {t \in InputTypes : CustomInInput(t)}

\* T depends on D
DependsOn(T, D) == D.name \in ReferencedNames(T)

\* the custom types reachable from T over at least one dependency
RECURSIVE ReachableFrom(_)
ReachableFrom(S) ==
    LET next == S \cup {D \in CustomTypes : \E T \in S : DependsOn(T, D)} IN
    IF next = S THEN S ELSE ReachableFrom(next)

HasCycle ==
    \E T \in CustomTypes :
        T \in ReachableFrom({D \in CustomTypes : DependsOn(T, D)})

IndicesOf(t) == {j \in DOMAIN sortedTypes : sortedTypes[j] = t}
SortedNames == [j \in DOMAIN sortedTypes |-> sortedTypes[j].name]

\* C1: when the sorter returns, every custom type D that a custom type T
\* depends on stands at a strictly smaller index than T.
C1_TopologicalValidity ==
    pc = "done" =>
        \A T, D \in CustomTypes :
            DependsOn(T, D) =>
                \E a \in IndicesOf(D), b \in IndicesOf(T) : a < b

\* a return with a dependency through a field argument and a chain of two
C1_Witness ==
    /\ pc = "done"
    /\ \E T, D, D2 \in CustomTypes :
          /\ DependsOn(T, D) /\ DependsOn(D, D2) /\ T # D /\ D # D2
          /\ \E j \in DOMAIN T.fields : \E k \in DOMAIN T.fields[j].args :
                underlyingType(T.fields[j].args[k].type).name = <<D.name>>

\* C2: with a cycle among the custom types the sorter never returns: the
\* types of the cycle stay in the map until the pass that raises; and a
\* returned sequence misses no custom type.
C2_CycleDetection ==
    /\ HasCycle => pc # "done"
    /\ HasCycle /\ pc = "loop" => DOMAIN typesToDependencies # {}
    /\ pc = "done" => \A T \in CustomTypes : IndicesOf(T) # {}

\* the error raised for a two-type cycle after an unrelated type was emitted
C2_Witness ==
    /\ pc = "thrown"
    /\ HasCycle
    /\ Len(sortedTypes) = 1
    /\ \E T, D \in CustomTypes : T # D /\ DependsOn(T, D) /\ DependsOn(D, T)

\* C3: a returned sequence holds each custom type of the input exactly once
\* and nothing else; Scalar, List, NonNull entries and meta types are never
\* appended.
C3_ExactMembership ==
    /\ pc = "done" =>
          /\ \A t \in InputTypes :
                Cardinality(IndicesOf(t)) = IF CustomInInput(t) THEN 1 ELSE 0
          /\ \A j \in DOMAIN sortedTypes : sortedTypes[j] \in InputTypes
    /\ \A j \in DOMAIN sortedTypes :
          /\ sortedTypes[j].kind \notin {"Scalar", "List", "NonNull"}
          /\ ~StartsWithDoubleUnderscore(sortedTypes[j].name)

\* a return for an input with three custom and four skipped entries
C3_Witness ==
    /\ pc = "done"
    /\ Len(sortedTypes) = 3
    /\ \E t \in InputTypes : t.kind = "Object" /\ StartsWithDoubleUnderscore(t.name)
    /\ \E t \in InputTypes : t.kind = "Scalar"

Reversed(s) == [j \in DOMAIN s |-> s[Len(s) + 1 - j]]
Rotated(s) == IF s = <<>> THEN s ELSE Tail(s) \o <<Head(s)>>
FirstTwoSwapped(s) == IF Len(s) < 2 THEN s ELSE <<s[2], s[1]>> \o SubSeq(s, 3, Len(s))

\* C4: the outcome for the input list is the outcome for the same types in
\* another order (reversed, rotated by one, first two entries exchanged).
C4_Determinism ==
    pc \in {"done", "thrown"} =>
        /\ SortOutcome(Reversed(types)) = Outcome
        /\ SortOutcome(Rotated(types)) = Outcome
        /\ SortOutcome(FirstTwoSwapped(types)) = Outcome

\* a return of three dependent types whose input order was not the output order
C4_Witness ==
    /\ pc = "done"
    /\ Len(sortedTypes) = 3
    /\ \E T, D \in CustomTypes : T # D /\ DependsOn(T, D)
    /\ SortedNames # SelectSeq([j \in DOMAIN types |-> types[j].name],
                               LAMBDA n : n \in {T.name : T \in CustomTypes})

\* every reference of a custom type to a custom-kind type names a custom
\* type of the input whose name is smaller than its own
DependenciesHaveSmallerNames ==
    \A T \in CustomTypes :
        \A n \in ReferencedNames(T) :
            /\ n \in {D.name : D \in CustomTypes}
            /\ StringLess(n, T.name)

IsAscending(names) ==
    \A a, b \in DOMAIN names : a < b => StringLess(names[a], names[b])

-----------------------------------------------------------------------------
(* The query document builder.  Generated text is a sequence of atoms: a   *)
(* literal of the code, a string taken from the schema, or an indentation. *)

Lit(s) == <<[atom |-> s, text |-> <<>>, n |-> 0]>>
Str(name) == <<[atom |-> "string", text |-> name, n |-> 0]>>
\* std::string(indentation * spacesPerIndent, ' '): empty for indentation 0
indent(indentation) ==
    IF indentation = 0 THEN <<>> ELSE <<[atom |-> "indent", text |-> <<>>, n |-> indentation]>>

\* string.at(0) = toupper(string.at(0)), for a non-empty string
capitalize(string) == <<toupper(Head(string))>> \o Tail(string)
uncapitalize(string) == <<tolower(Head(string))>> \o Tail(string)

operationQueryName(operation) ==
    CASE operation = "Query" -> "query"
      [] operation = "Mutation" -> "mutation"
      [] operation = "Subscription" -> "subscription"

RECURSIVE graphqlTypeName(_)
\* only the name of the underlying type is rendered
graphqlTypeNameOfUnderlyingType(type) == Str(underlyingType(type).name[1])

graphqlTypeName(type) ==
    CASE type.kind = "List" -> Lit("[") \o graphqlTypeName(type.ofType[1]) \o Lit("]")
      [] type.kind = "NonNull" -> graphqlTypeName(type.ofType[1]) \o Lit("!")
      [] OTHER -> Str(type.name[1])

\* every scope contributes its name without any capitalization
appendNameVerbatim(variablePrefix, name) == variablePrefix \o name

appendNameToVariablePrefix(variablePrefix, name) ==
    IF variablePrefix = <<>> THEN uncapitalize(name) ELSE variablePrefix \o capitalize(name)

\* the variable registered with the underlying type of the argument
QueryVariableOfUnderlyingType(variableName, arg) ==
    [name |-> variableName, type |-> underlyingType(arg.type)]

\* variables.push_back({variableName, arg.type})
QueryVariable(variableName, arg) == [name |-> variableName, type |-> arg.type]

\* the fields of the possible type are filtered by their name only
IsIgnoredByName(field, ignoredFields) ==
    \E j \in DOMAIN ignoredFields : ignoredFields[j].name = field.name

\* std::find(ignoredFields.begin(), ignoredFields.end(), field) != end, with
\* operator==(Field, Field): type, name, description and args
IsIgnored(field, ignoredFields) ==
    \E j \in DOMAIN ignoredFields : ignoredFields[j] = field

\* the result of a generator: the text, the variables vector after the call,
\* and whether an exception left the call (typeMap.at, optional::value)
Generated(text, variables) == [generated |-> text, variables |-> variables, failed |-> FALSE]
Failed(variables) == [generated |-> <<>>, variables |-> variables, failed |-> TRUE]

RECURSIVE Bindings(_, _, _, _)
\* the text of the loop over field.args, from argument j on
Bindings(field, j, variablePrefix, indentation) ==
    IF j > Len(field.args) THEN <<>>
    ELSE indent(indentation + 1) \o Str(field.args[j].name) \o Lit(": $")
         \o Str(appendNameToVariablePrefix(variablePrefix, field.args[j].name))
         \o Lit("\n") \o Bindings(field, j + 1, variablePrefix, indentation)

\* the argument list of generateQueryField, lines 565-573
ArgumentBindings(field, variablePrefix, indentation) ==
    IF field.args = <<>> THEN <<>>
    ELSE Lit("(\n") \o Bindings(field, 1, variablePrefix, indentation)
         \o indent(indentation) \o Lit(")")

ArgumentVariables(field, variablePrefix) ==
    [j \in 1..Len(field.args) |->
        QueryVariable(appendNameToVariablePrefix(variablePrefix, field.args[j].name), field.args[j])]

\* only a Scalar is taken for a leaf
IsNotScalar(underlyingFieldType) == underlyingFieldType.kind # "Scalar"

\* underlyingFieldType.kind != Scalar && underlyingFieldType.kind != Enum
HasSelectionSet(underlyingFieldType) ==
    underlyingFieldType.kind # "Scalar" /\ underlyingFieldType.kind # "Enum"

RECURSIVE generateQueryField(_, _, _, _, _)
RECURSIVE generateQueryFields(_, _, _, _, _, _)
RECURSIVE addTypeFields(_, _, _, _, _, _, _)
RECURSIVE addPossibleTypes(_, _, _, _, _, _)

generateQueryField(field, tm, variablePrefix, variables, indentation) ==
    LET head == indent(indentation) \o Str(field.name)
                \o ArgumentBindings(field, variablePrefix, indentation)
        withArgs == variables \o ArgumentVariables(field, variablePrefix)
        underlyingFieldType == underlyingType(field.type)
    IN IF HasSelectionSet(underlyingFieldType)
       THEN IF underlyingFieldType.name = <<>> \/ underlyingFieldType.name[1] \notin DOMAIN tm
            THEN Failed(withArgs)
            ELSE LET inner == generateQueryFields(
                                  tm[underlyingFieldType.name[1]], tm,
                                  appendNameToVariablePrefix(variablePrefix, underlyingFieldType.name[1]),
                                  withArgs, <<>>, indentation + 1)
                 IN IF inner.failed THEN inner
                    ELSE Generated(head \o Lit(" {\n") \o inner.generated
                                   \o indent(indentation) \o Lit("}") \o Lit("\n"),
                                   inner.variables)
       ELSE Generated(head \o Lit("\n"), withArgs)

\* the lambda addTypeFields, from field j of type.fields on
addTypeFields(type, j, tm, variablePrefix, variables, ignoredFields, indentation) ==
    IF j > Len(type.fields) THEN Generated(<<>>, variables)
    ELSE IF IsIgnored(type.fields[j], ignoredFields)
         THEN addTypeFields(type, j + 1, tm, variablePrefix, variables, ignoredFields, indentation)
         ELSE LET first == generateQueryField(
                               type.fields[j], tm,
                               appendNameToVariablePrefix(variablePrefix, type.fields[j].name),
                               variables, indentation)
              IN IF first.failed THEN first
                 ELSE LET rest == addTypeFields(type, j + 1, tm, variablePrefix,
                                                first.variables, ignoredFields, indentation)
                      IN IF rest.failed THEN rest
                         ELSE Generated(first.generated \o rest.generated, rest.variables)

\* the loop over type.possibleTypes, from entry j on
addPossibleTypes(type, j, tm, variablePrefix, variables, indentation) ==
    IF j > Len(type.possibleTypes) THEN Generated(<<>>, variables)
    ELSE LET possibleType == type.possibleTypes[j] IN
         IF possibleType.name = <<>> \/ possibleType.name[1] \notin DOMAIN tm
         THEN Failed(variables)
         ELSE LET possibleTypeQuery == generateQueryFields(
                                           tm[possibleType.name[1]], tm,
                                           appendNameToVariablePrefix(variablePrefix, possibleType.name[1]),
                                           variables, type.fields, indentation + 1)
              IN IF possibleTypeQuery.failed THEN possibleTypeQuery
                 ELSE LET fragment == IF possibleTypeQuery.generated # <<>>
                                      THEN indent(indentation) \o Lit("...on ")
                                           \o Str(possibleType.name[1]) \o Lit(" {\n")
                                           \o possibleTypeQuery.generated
                                           \o indent(indentation) \o Lit("}\n")
                                      ELSE <<>>
                          rest == addPossibleTypes(type, j + 1, tm, variablePrefix,
                                                   possibleTypeQuery.variables, indentation)
                      IN IF rest.failed THEN rest
                         ELSE Generated(fragment \o rest.generated, rest.variables)

generateQueryFields(type, tm, variablePrefix, variables, ignoredFields, indentation) ==
    IF type.possibleTypes # <<>>
    THEN LET own == addTypeFields(type, 1, tm, variablePrefix, variables, ignoredFields, indentation)
         IN IF own.failed THEN own
            ELSE LET fragments == addPossibleTypes(type, 1, tm, variablePrefix,
                                                   own.variables, indentation)
                 IN IF fragments.failed THEN fragments
                    ELSE Generated(indent(indentation) \o Lit("__typename\n")
                                   \o own.generated \o fragments.generated,
                                   fragments.variables)
    ELSE addTypeFields(type, 1, tm, variablePrefix, variables, ignoredFields, indentation)

RECURSIVE VariableDeclarations(_, _, _)
\* the loop over variables of generateQueryDocument, from variable j on
VariableDeclarations(variables, j, indentation) ==
    IF j > Len(variables) THEN <<>>
    ELSE indent(indentation + 1) \o Lit("$") \o Str(variables[j].name) \o Lit(": ")
         \o graphqlTypeName(variables[j].type) \o Lit("\n")
         \o VariableDeclarations(variables, j + 1, indentation)

\* lines 644-659: the document around the selection set of the root field
DocumentAround(selectionSet, field, operation, indentation) ==
    IF selectionSet.failed
    THEN [query |-> <<>>, variables |-> selectionSet.variables, failed |-> TRUE]
    ELSE [query |-> indent(indentation) \o Lit(operationQueryName(operation)) \o Lit(" ")
                    \o Str(capitalize(field.name))
                    \o (IF Len(selectionSet.variables) # 0
                        THEN Lit("(\n") \o VariableDeclarations(selectionSet.variables, 1, indentation)
                             \o indent(indentation) \o Lit(")")
                        ELSE <<>>)
                    \o Lit(" {\n") \o selectionSet.generated
                    \o indent(indentation) \o Lit("}\n"),
          variables |-> selectionSet.variables,
          failed |-> FALSE]

\* the QueryDocument and whether an exception left the call
generateQueryDocument(field, operation, tm, indentation) ==
    DocumentAround(generateQueryField(field, tm, <<>>, <<>>, indentation + 1),
                   field, operation, indentation)

\* lines 637-660 returning
GenerateDocument ==
    /\ qpc = "ready"
    /\ LET d == generateQueryDocument(rootField, rootOperation, typeMap, rootIndentation) IN
        /\ ~d.failed
        /\ document' = [query |-> d.query, variables |-> d.variables]
    /\ qpc' = "returned"
    /\ UNCHANGED <<rootField, rootOperation, rootIndentation, typeMap, frames, sortVars, genVars, boxVars>>

\* typeMap.at or optional::value throws inside the expansion
GenerateDocumentThrows ==
    /\ qpc = "ready"
    /\ generateQueryDocument(rootField, rootOperation, typeMap, rootIndentation).failed
    /\ qpc' = "thrown"
    /\ UNCHANGED <<rootField, rootOperation, rootIndentation, typeMap, document, frames, sortVars, genVars, boxVars>>

-----------------------------------------------------------------------------
(* Inputs of the query builder.  Object schemas: a root field whose type   *)
(* is an Object with up to MaxFields fields and up to MaxArgs arguments    *)
(* in all.  Polymorphic schemas: a root field of an Interface or Union     *)
(* with two possible types that repeat, vary or omit the shared fields.    *)

NameA == <<"a">>
NameAB == <<"a", "B">>
NameNestedField == <<"n", "e", "s", "t", "e", "d", "F", "i", "e", "l", "d">>
NameSub == <<"s", "u", "b">>
NameC == <<"c">>
NameBC == <<"b", "C">>
NameNestedArg == <<"n", "e", "s", "t", "e", "d", "A", "r", "g">>
NameObject == <<"O", "b", "j", "e", "c", "t">>
NameThing == <<"T", "h", "i", "n", "g">>
NameObjectField == <<"o", "b", "j", "e", "c", "t">>
NameFieldField == <<"f", "i", "e", "l", "d">>
NameSubType == <<"S", "u", "b">>
NameColor == <<"C", "o", "l", "o", "r">>
NameIface == <<"I", "f", "a", "c", "e">>
NameImpA == <<"I", "m", "p", "A">>
NameImpB == <<"I", "m", "p", "B">>

IntRef == NamedRef("Scalar", IntName)

FieldNamePool == <<NameA, NameAB, NameNestedField, NameSub>>
ArgNamePool == <<NameC, NameBC, NameNestedArg>>

\* the declared type of a field of the pool: Int, [Color!], Int, Sub!
FieldTypeOf(name) ==
    IF name = NameSub THEN NonNullOf(NamedRef("Object", NameSubType))
    ELSE IF name = NameAB THEN ListOf(NonNullOf(NamedRef("Enum", NameColor)))
    ELSE IntRef

\* the declared type of an argument of the pool: Int, [Int]!, Int!
ArgTypeOf(name) ==
    IF name = NameBC THEN NonNullOf(ListOf(IntRef))
    ELSE IF name = NameNestedArg THEN NonNullOf(IntRef)
    ELSE IntRef

\* sequences without repetition of at most n elements of S
RECURSIVE InjectiveSeqs(_, _)
InjectiveSeqs(S, n) ==
    IF n = 0 THEN {<<>>}
    ELSE LET shorter == InjectiveSeqs(S, n - 1) IN
         shorter \cup
         {Append(pr[1], pr[2]) :
             pr \in {qx \in shorter \X S :
                        Len(qx[1]) = n - 1 /\ \A j \in DOMAIN qx[1] : qx[1][j] # qx[2]}}

\* the arguments of the pool chosen for slot f (0 is the root field)
ArgsAt(slots, f) ==
    LET chosen == AscendingSeq({k \in DOMAIN ArgNamePool : <<f, k>> \in slots}) IN
    [j \in 1..Len(chosen) |-> InputValue(ArgTypeOf(ArgNamePool[chosen[j]]), ArgNamePool[chosen[j]], "")]

SubType ==
    Type("Object", NameSubType,
         <<Field(IntRef, NameA, "", <<InputValue(IntRef, NameC, "")>>)>>, <<>>, <<>>)

ObjectTypeMap(typeName, names, slots, withSub) ==
    LET fields == [j \in 1..Len(names) |->
                      Field(FieldTypeOf(FieldNamePool[names[j]]), FieldNamePool[names[j]], "",
                            ArgsAt(slots, j))]
        object == (typeName :> Type("Object", typeName, fields, <<>>, <<>>))
    IN IF withSub THEN (NameSubType :> SubType) @@ object ELSE object

\* the arguments of the pool that a field of the pool may declare; the root
\* field (no name) may declare c and bC
AllowedArgs(fieldName) ==
    IF fieldName = <<>> \/ fieldName = NameA THEN {1, 2}
    ELSE IF fieldName = NameAB THEN {1}
    ELSE IF fieldName = NameNestedField THEN {3}
    ELSE {}

\* at most MaxArgs arguments in all, on the root field (slot 0) and the fields
SlotSets(names) ==
    LET slotsOf(f) == IF f = 0 THEN AllowedArgs(<<>>) ELSE AllowedArgs(FieldNamePool[names[f]])
    IN {sl \in SUBSET {fk \in (0..Len(names)) \X DOMAIN ArgNamePool : fk[2] \in slotsOf(fk[1])} :
           Cardinality(sl) <= MaxArgs}

\* the type Sub may be missing from the map only if a field refers to it
SubChoices(names) ==
    IF \E j \in DOMAIN names : FieldNamePool[names[j]] = NameSub THEN BOOLEAN ELSE {TRUE}

\* type name of the root field, its own name, and the operation
RootChoices ==
    {[typeName |-> NameObject, rootName |-> NameFieldField, operation |-> "Query"],
     [typeName |-> NameThing, rootName |-> NameObjectField, operation |-> "Mutation"],
     [typeName |-> NameObject, rootName |-> NameObjectField, operation |-> "Subscription"],
     [typeName |-> NameThing, rootName |-> NameFieldField, operation |-> "Query"]}

ObjectSchemas ==
    UNION {
        {[rootField |-> Field(NonNullOf(NamedRef("Object", root.typeName)), root.rootName, "",
                              ArgsAt(slots, 0)),
          operation |-> root.operation,
          typeMap |-> ObjectTypeMap(root.typeName, names, slots, withSub),
          indentation |-> 0] :
            root \in RootChoices,
            slots \in SlotSets(names),
            withSub \in SubChoices(names)} :
        names \in InjectiveSeqs(DOMAIN FieldNamePool, MaxFields)}

\* the fields an interface may declare: a: Int and aB(c: Int): Int
SharedFieldPool ==
    <<Field(IntRef, NameA, "", <<>>),
      Field(IntRef, NameAB, "", <<InputValue(IntRef, NameC, "")>>)>>

\* how a possible type declares a field of its interface
Implemented(field, variant) ==
    CASE variant = "copy" -> <<field>>
      [] variant = "described" -> <<[field EXCEPT !.description = "d"]>>
      [] variant = "nonnull" -> <<[field EXCEPT !.type = NonNullOf(@)]>>
      [] variant = "omitted" -> <<>>

RECURSIVE ImplementedAll(_, _, _)
ImplementedAll(shared, variants, j) ==
    IF j > Len(shared) THEN <<>>
    ELSE Implemented(shared[j], variants[j]) \o ImplementedAll(shared, variants, j + 1)

OwnFieldA == Field(IntRef, NameNestedField, "", <<InputValue(NonNullOf(IntRef), NameNestedArg, "")>>)
OwnFieldB == Field(IntRef, NameNestedField, "", <<>>)

PolymorphicTypeMap(shared, variantsA, variantsB, ownA, ownB, withImpB) ==
    LET kind == IF shared = <<>> THEN "Union" ELSE "Interface"
        impA == Type("Object", NameImpA,
                     ImplementedAll(shared, variantsA, 1) \o (IF ownA THEN <<OwnFieldA>> ELSE <<>>),
                     <<>>, <<>>)
        impB == Type("Object", NameImpB,
                     ImplementedAll(shared, variantsB, 1) \o (IF ownB THEN <<OwnFieldB>> ELSE <<>>),
                     <<>>, <<>>)
        iface == Type(kind, NameIface, shared, <<>>,
                      <<NamedRef("Object", NameImpA), NamedRef("Object", NameImpB)>>)
        base == (NameIface :> iface) @@ (NameImpA :> impA)
    IN IF withImpB THEN base @@ (NameImpB :> impB) ELSE base

PolymorphicSchemas ==
    UNION {
        {[rootField |-> Field(NamedRef(IF picks = <<>> THEN "Union" ELSE "Interface", NameIface),
                              NameFieldField, "", <<>>),
          operation |-> "Query",
          typeMap |-> PolymorphicTypeMap([j \in DOMAIN picks |-> SharedFieldPool[picks[j]]],
                                         variantsA, variantsB, ownA, ownB, withImpB),
          indentation |-> 2] :
            variantsA \in [DOMAIN picks -> {"copy", "described", "nonnull", "omitted"}],
            variantsB \in [DOMAIN picks -> {"copy", "omitted"}],
            ownA \in BOOLEAN, ownB \in BOOLEAN, withImpB \in BOOLEAN} :
        picks \in InjectiveSeqs(DOMAIN SharedFieldPool, MaxFields)}

SortIdle ==
    /\ types = <<>>
    /\ typesToDependents = EmptyMap
    /\ typesToDependencies = EmptyMap
    /\ sortedTypes = <<>>
    /\ passes = <<>>
    /\ pc = "idle"

QueryInit ==
    /\ \E input \in ObjectSchemas \cup PolymorphicSchemas :
          /\ rootField = input.rootField
          /\ typeMap = input.typeMap
          /\ rootIndentation = input.indentation
          /\ rootOperation = input.operation
    /\ document = NoDocument
    /\ qpc = "ready"
    /\ frames = <<>>
    /\ SortIdle
    /\ GenIdle
    /\ BoxIdle

QueryNext == GenerateDocument \/ GenerateDocumentThrows

QuerySpec == QueryInit /\ [][QueryNext]_vars

-----------------------------------------------------------------------------
(* Vocabulary of the claims about the query builder, read off the text     *)

\* the positions of the atoms of a text that satisfy Test, in order
PositionsWhere(text, Test(_, _)) == AscendingSeq({j \in DOMAIN text : Test(text, j)})

IsLiteralAt(text, j, s) == j \in DOMAIN text /\ text[j].atom = s
IsStringAt(text, j) == j \in DOMAIN text /\ text[j].atom = "string"
IsIndentAt(text, j, depth) ==
    IF depth = 0 THEN TRUE
    ELSE j \in DOMAIN text /\ text[j].atom = "indent" /\ text[j].n = depth

\* `name: $variable` lines: the positions of their ": $"
BindingPositions(text) == PositionsWhere(text, LAMBDA t, j : IsLiteralAt(t, j, ": $"))

\* a line `name`, `name(` or `name {` at the given depth (not at depth 0):
\* the positions of the selected field names
FieldPositions(text, depth) ==
    PositionsWhere(text, LAMBDA t, j :
        /\ IsStringAt(t, j) /\ IsIndentAt(t, j - 1, depth)
        /\ \/ IsLiteralAt(t, j + 1, "\n")
           \/ IsLiteralAt(t, j + 1, "(\n")
           \/ IsLiteralAt(t, j + 1, " {\n"))

NamesAt(text, positions) == [i \in DOMAIN positions |-> text[positions[i]].text]

VariableNames == [j \in DOMAIN document.variables |-> document.variables[j].name]

\* the type that the root field selects from
RootTypeName == underlyingType(rootField.type).name[1]
RootType == typeMap[RootTypeName]

\* C6: the variable names of a returned document are pairwise distinct.
C6_VariableNamesDistinct ==
    qpc = "returned" =>
        \A i, j \in DOMAIN VariableNames : i # j => VariableNames[i] # VariableNames[j]

\* the case of C7: the type of the root field has the one field nestedField
\* with the one argument nestedArg, and the root field has no argument
NestedArgumentCase ==
    /\ qpc = "returned"
    /\ rootField.args = <<>>
    /\ Len(RootType.fields) = 1
    /\ RootType.possibleTypes = <<>>
    /\ RootType.fields[1].name = NameNestedField
    /\ Len(RootType.fields[1].args) = 1
    /\ RootType.fields[1].args[1].name = NameNestedArg

\* C7 as stated: for the root field `object` the one variable is named by the
\* root field name, the nested field name and the argument name.
C7_NameFromRootFieldName ==
    NestedArgumentCase /\ rootField.name = NameObjectField =>
        VariableNames = <<<<"o", "b", "j", "e", "c", "t", "N", "e", "s", "t", "e", "d", "F", "i", "e", "l", "d", "N", "e", "s", "t", "e", "d", "A", "r", "g">>>>

\* C7 amended: the one variable is named by the name of the root field's
\* underlying type (uncapitalized), the nested field name and the argument
\* name (capitalized); the root field's own name is no segment.
C7_NameFromRootTypeName ==
    NestedArgumentCase =>
        VariableNames =
            << (IF RootTypeName = NameThing THEN <<"t", "h", "i", "n", "g">> ELSE <<"o", "b", "j", "e", "c", "t">>)
               \o <<"N", "e", "s", "t", "e", "d", "F", "i", "e", "l", "d">> \o <<"N", "e", "s", "t", "e", "d", "A", "r", "g">> >>

\* the root field `object` of type Thing
C7_Witness ==
    /\ NestedArgumentCase
    /\ rootField.name = NameObjectField
    /\ RootTypeName = NameThing
    /\ VariableNames = <<<<"t", "h", "i", "n", "g", "N", "e", "s", "t", "e", "d", "F", "i", "e", "l", "d", "N", "e", "s", "t", "e", "d", "A", "r", "g">>>>

\* two fields a(bC) and aB(c) of one type yield the same variable name
C6_Collision ==
    /\ qpc = "returned"
    /\ VariableNames = <<<<"t", "h", "i", "n", "g", "A", "B", "C">>, <<"t", "h", "i", "n", "g", "A", "B", "C">>>>

\* a returned document for a root field of a type with possible types
PolymorphicCase == qpc = "returned" /\ RootType.possibleTypes # <<>>

\* the selections of the polymorphic type are one level below the root field
SharedDepth == rootIndentation + 2

\* the lines at the level of the polymorphic type: `__typename`, a field, or
\* the head of an inline fragment; each as <<kind, name>>
SharedLines ==
    LET q == document.query
        starts == PositionsWhere(q, LAMBDA t, j :
                      /\ IsIndentAt(t, j - 1, SharedDepth)
                      /\ \/ IsLiteralAt(t, j, "__typename\n")
                         \/ IsLiteralAt(t, j, "...on ")
                         \/ /\ IsStringAt(t, j)
                            /\ \/ IsLiteralAt(t, j + 1, "\n")
                               \/ IsLiteralAt(t, j + 1, "(\n")
                               \/ IsLiteralAt(t, j + 1, " {\n"))
    IN [i \in DOMAIN starts |->
           IF q[starts[i]].atom = "__typename\n" THEN <<"typename", <<>>>>
           ELSE IF q[starts[i]].atom = "...on " THEN <<"fragment", q[starts[i] + 1].text>>
           ELSE <<"field", q[starts[i]].text>>]

\* the names of the fields selected inside the inline fragment on typeName,
\* in order; <<>> if the text has no such fragment
FragmentFieldNames(typeName) ==
    LET q == document.query
        heads == {j \in DOMAIN q : /\ IsLiteralAt(q, j, "...on ")
                                   /\ IsIndentAt(q, j - 1, SharedDepth)
                                   /\ q[j + 1].text = typeName}
    IN IF heads = {} THEN <<>>
       ELSE LET head == CHOOSE j \in heads : TRUE
                close == CHOOSE j \in DOMAIN q :
                             /\ j > head /\ IsLiteralAt(q, j, "}\n")
                             /\ IsIndentAt(q, j - 1, SharedDepth)
                             /\ \A k \in (head + 1)..(j - 1) :
                                   ~(IsLiteralAt(q, k, "}\n") /\ IsIndentAt(q, k - 1, SharedDepth))
                inside == SubSeq(q, head, close)
            IN NamesAt(inside, FieldPositions(inside, SharedDepth + 1))

FieldNames(fields) == [j \in DOMAIN fields |-> fields[j].name]
PossibleTypeNames == [j \in DOMAIN RootType.possibleTypes |-> RootType.possibleTypes[j].name[1]]

\* C8: the selection of a polymorphic type is `__typename`, its own fields,
\* then the inline fragments in possible-types order, and no inline fragment
\* selects a field with the name of a field that the type itself declares.
C8_NoSharedFieldInFragments ==
    PolymorphicCase =>
        /\ \E fragments \in SUBSET DOMAIN PossibleTypeNames :
              SharedLines = << <<"typename", <<>>>> >>
                            \o [j \in DOMAIN RootType.fields |-> <<"field", RootType.fields[j].name>>]
                            \o [j \in 1..Cardinality(fragments) |->
                                   <<"fragment", PossibleTypeNames[AscendingSeq(fragments)[j]]>>]
        /\ \A j \in DOMAIN PossibleTypeNames :
              \A k \in DOMAIN FragmentFieldNames(PossibleTypeNames[j]) :
                  \A f \in DOMAIN RootType.fields :
                      FragmentFieldNames(PossibleTypeNames[j])[k] # RootType.fields[f].name

RemainingFields(typeName) ==
    SelectSeq(typeMap[typeName].fields,
              LAMBDA field : \A j \in DOMAIN RootType.fields : RootType.fields[j] # field)

SelectionSet ==
    LET q == document.query
        open == CHOOSE j \in DOMAIN q :
                    IsLiteralAt(q, j, " {\n") /\ \A k \in 1..(j - 1) : ~IsLiteralAt(q, k, " {\n")
    IN SubSeq(q, open + 1, Len(q) - Len(indent(rootIndentation) \o Lit("}\n")))

\* what C10 says of one call of generateQueryField that returned `text` and
\* left `after` in the variables vector which held `before`
ArgumentRule(field, before, text, after, depth) ==
    LET nameAt == Len(indent(depth)) + 1
        isLeaf == underlyingType(field.type).kind \in {"Scalar", "Enum"}
        bindings == BindingPositions(text)
    IN /\ text[nameAt] = Str(field.name)[1]
       /\ Len(after) >= Len(before) /\ SubSeq(after, 1, Len(before)) = before
       /\ Len(bindings) = Len(after) - Len(before)
       /\ IF field.args = <<>>
          THEN /\ text[nameAt + 1].atom \in {" {\n", "\n"}
               /\ isLeaf => after = before
          ELSE LET close == CHOOSE j \in DOMAIN text :
                                /\ IsLiteralAt(text, j, ")")
                                /\ \A k \in 1..(j - 1) : ~IsLiteralAt(text, k, ")")
                   own == SelectSeq(bindings, LAMBDA j : j < close)
               IN /\ IsLiteralAt(text, nameAt + 1, "(\n")
                  /\ text[close + 1].atom \in {" {\n", "\n"}
                  /\ \A k \in (nameAt + 2)..(close - 1) : text[k].atom \notin {"(\n", " {\n"}
                  /\ Len(own) = Len(field.args)
                  /\ Len(after) >= Len(before) + Len(field.args)
                  /\ \A i \in DOMAIN field.args :
                        /\ text[own[i] - 1] = Str(field.args[i].name)[1]
                        /\ text[own[i] + 1] = Str(after[Len(before) + i].name)[1]
                        /\ after[Len(before) + i].type = field.args[i].type
                  /\ isLeaf => Len(after) = Len(before) + Len(field.args)

\* a variables vector that already holds an entry
OneVariableBefore == <<[name |-> <<"v">>, type |-> IntRef]>>

\* C10: a field with arguments emits one binding per argument in declaration
\* order and appends one variable per argument in that order with the declared
\* type; a field without arguments emits no parentheses and appends no
\* variable.  Stated of the call for the root field, whose result is the
\* document, and of a call for every field of the type map.
C10_ArgumentRule ==
    qpc = "returned" =>
        /\ ArgumentRule(rootField, <<>>, SelectionSet, document.variables, rootIndentation + 1)
        /\ \A n \in DOMAIN typeMap : \A j \in DOMAIN typeMap[n].fields :
              LET r == generateQueryField(typeMap[n].fields[j], typeMap, <<"p">>,
                                          OneVariableBefore, 1)
              IN ~r.failed =>
                    ArgumentRule(typeMap[n].fields[j], OneVariableBefore, r.generated, r.variables, 1)

\* a root field with the arguments c: Int and bC: [Int]! over a type with a
\* field without arguments
C10_Witness ==
    /\ qpc = "returned"
    /\ Len(rootField.args) = 2
    /\ Len(document.variables) = 2
    /\ document.variables[1] = [name |-> NameC, type |-> IntRef]
    /\ document.variables[2] = [name |-> NameBC, type |-> NonNullOf(ListOf(IntRef))]
    /\ \E j \in DOMAIN RootType.fields : RootType.fields[j].args = <<>>

-----------------------------------------------------------------------------
(* The leaf rule *)

\* the root field and every field of a type of the type map
AllFields ==
    {rootField} \cup UNION {{typeMap[n].fields[j] : j \in DOMAIN typeMap[n].fields} : n \in DOMAIN typeMap}

\* a type map without any type
NoTypes == <<>>

\* the kind that remains after stripping every List and NonNull wrapper
RECURSIVE StrippedKind(_)
StrippedKind(t) == IF t.kind \in {"List", "NonNull"} THEN StrippedKind(t.ofType[1]) ELSE t.kind

\* what C11 says of one field: a leaf yields its header and the line end,
\* also with an empty type map; any other field yields the header, ` {`, the
\* expansion of its type one level deeper, and the closing brace
LeafRule(field) ==
    LET withMap == generateQueryField(field, typeMap, <<"p">>, OneVariableBefore, 1)
        withoutMap == generateQueryField(field, NoTypes, <<"p">>, OneVariableBefore, 1)
        headLen == 2 + (IF field.args = <<>> THEN 0 ELSE 3 + 5 * Len(field.args))
    IN IF StrippedKind(field.type) \in {"Scalar", "Enum"}
       THEN /\ ~withoutMap.failed /\ withMap = withoutMap
            /\ Len(withMap.generated) = headLen + 1
            /\ withMap.generated[2] = Str(field.name)[1]
            /\ IsLiteralAt(withMap.generated, headLen + 1, "\n")
            /\ \A j \in DOMAIN withMap.generated :
                  withMap.generated[j].atom \notin {" {\n", "}", "}\n", "__typename\n", "...on "}
       ELSE /\ withoutMap.failed
            /\ ~withMap.failed =>
                  LET name == underlyingType(field.type).name[1]
                      expansion == generateQueryFields(
                                       typeMap[name], typeMap, appendNameToVariablePrefix(<<"p">>, name),
                                       withMap.variables, <<>>, 2).generated
                      text == withMap.generated
                  IN /\ text[2] = Str(field.name)[1]
                     /\ IsLiteralAt(text, headLen + 1, " {\n")
                     /\ SubSeq(text, headLen + 2, Len(text)) =
                            expansion \o indent(1) \o Lit("}") \o Lit("\n")

\* C11: a field whose underlying type is Scalar or Enum yields its name and
\* bindings only and is not looked up in the type map; a field of any other
\* underlying kind yields a nested block with the expansion of its type.
\* Stated of a call for every field of the schema, and of the root field of
\* a returned document.
C11_LeafRule ==
    /\ \A field \in AllFields : LeafRule(field)
    /\ qpc = "returned" =>
          IsLiteralAt(SelectionSet, 2 + (IF rootField.args = <<>> THEN 0 ELSE 3 + 5 * Len(rootField.args)) + 1,
                      " {\n")

\* the root type has the wrapped Enum field aB: [Color!] with an argument and
\* the Object field sub: Sub!, and Color is not in the type map
C11_Witness ==
    /\ qpc = "returned"
    /\ NameColor \notin DOMAIN typeMap
    /\ \E i, j \in DOMAIN RootType.fields :
          /\ RootType.fields[i].name = NameAB /\ RootType.fields[i].args # <<>>
          /\ RootType.fields[j].name = NameSub
    /\ \E k \in DOMAIN document.query : IsIndentAt(document.query, k, 3)

-----------------------------------------------------------------------------
(* The type-name renderers cppTypeName and graphqlTypeName *)

\* most List and NonNull wrappers around a rendered TypeRef
MaxWraps == 3

cppIdTypeName == "Id"

\* a renderer returned text, or threw std::invalid_argument with what()
Rendered(text) == [generated |-> text, failed |-> FALSE, what |-> <<>>]
Thrown(what) == [generated |-> <<>>, failed |-> TRUE, what |-> what]

NameFloat == <<"F", "l", "o", "a", "t">>
NameString == <<"S", "t", "r", "i", "n", "g">>
NameBoolean == <<"B", "o", "o", "l", "e", "a", "n">>
NameID == <<"I", "D">>
NameDate == <<"D", "a", "t", "e">>

\* a name outside the five is taken for a String
scalarTypeOrString(name) ==
    IF name = IntName THEN Rendered("Int")
    ELSE IF name = NameFloat THEN Rendered("Float")
    ELSE IF name = NameBoolean THEN Rendered("Boolean")
    ELSE IF name = NameID THEN Rendered("ID")
    ELSE Rendered("String")

\* the Scalar enumerator, or the exception of line 269
scalarType(name) ==
    IF name = IntName THEN Rendered("Int")
    ELSE IF name = NameFloat THEN Rendered("Float")
    ELSE IF name = NameString THEN Rendered("String")
    ELSE IF name = NameBoolean THEN Rendered("Boolean")
    ELSE IF name = NameID THEN Rendered("ID")
    ELSE Thrown(Lit("Invalid Scalar value: ") \o Str(name))

cppScalarName(scalar) ==
    CASE scalar = "Int" -> Lit("int32_t")
      [] scalar = "Float" -> Lit("double")
      [] scalar = "String" -> Lit("std::string")
      [] scalar = "ID" -> Lit(cppIdTypeName)
      [] scalar = "Boolean" -> Lit("bool")

\* every TypeRef is rendered as if it were NonNull
NeverWrapsInOptional(type, shouldCheckNullability) == FALSE

\* shouldCheckNullability && type.kind != TypeKind::NonNull
WrapsInOptional(type, shouldCheckNullability) ==
    shouldCheckNullability /\ type.kind # "NonNull"

RECURSIVE cppTypeName(_, _)
cppTypeName(type, shouldCheckNullability) ==
    IF WrapsInOptional(type, shouldCheckNullability)
    THEN LET inner == cppTypeName(type, FALSE) IN
         IF inner.failed THEN inner
         ELSE Rendered(Lit("optional<") \o inner.generated \o Lit(">"))
    ELSE CASE isCustomType(type.kind) -> Rendered(Str(type.name[1]))
           [] type.kind = "Scalar" ->
                LET scalar == scalarType(type.name[1]) IN
                IF scalar.failed THEN scalar ELSE Rendered(cppScalarName(scalar.generated))
           [] type.kind = "List" ->
                LET element == cppTypeName(type.ofType[1], TRUE) IN
                IF element.failed THEN element
                ELSE Rendered(Lit("std::vector<") \o element.generated \o Lit(">"))
           [] type.kind = "NonNull" -> cppTypeName(type.ofType[1], FALSE)

\* cppTypeName(typeRef) with the default shouldCheckNullability = true
RenderCpp ==
    /\ rpc = "ready"
    /\ cppName = NotRendered
    /\ cppName' = cppTypeName(typeRef, TRUE)
    /\ UNCHANGED <<typeRef, graphqlName, rpc, passing, unwrapped, sortVars, queryVars, schemaVars, codecVars, boxVars>>

RenderGraphql ==
    /\ rpc = "ready"
    /\ graphqlName = <<>>
    /\ graphqlName' = graphqlTypeName(typeRef)
    /\ UNCHANGED <<typeRef, cppName, rpc, passing, unwrapped, sortVars, queryVars, schemaVars, codecVars, boxVars>>

\* the named TypeRefs rendered: an Object, an Enum, the five built-in scalars
\* and a custom scalar
RenderBases ==
    {NamedRef("Object", NameObject), NamedRef("Enum", NameColor),
     NamedRef("Scalar", IntName), NamedRef("Scalar", NameFloat), NamedRef("Scalar", NameString),
     NamedRef("Scalar", NameBoolean), NamedRef("Scalar", NameID), NamedRef("Scalar", NameDate)}

\* the TypeRefs with at most n wrappers; a NonNull never wraps a NonNull
RECURSIVE WrappedRefs(_)
WrappedRefs(n) ==
    IF n = 0 THEN RenderBases
    ELSE LET inner == WrappedRefs(n - 1) IN
         inner \cup {ListOf(t) : t \in inner} \cup {NonNullOf(t) : t \in {u \in inner : u.kind # "NonNull"}}

RenderInit ==
    /\ typeRef \in WrappedRefs(MaxWraps)
    /\ cppName = NotRendered
    /\ graphqlName = <<>>
    /\ rpc = "ready"
    /\ passing = NotRendered
    /\ unwrapped = <<>>
    /\ SortIdle
    /\ QueryIdle
    /\ SchemaIdle
    /\ CodecIdle
    /\ BoxIdle

RenderNext == RenderCpp \/ RenderGraphql

RenderSpec == RenderInit /\ [][RenderNext]_vars

-----------------------------------------------------------------------------
(* Vocabulary of the claims about the renderers: the wrappers of a TypeRef *)
(* as a sequence of kinds, outermost first and ending with the named kind  *)

RECURSIVE KindsOf(_)
KindsOf(t) == IF t.ofType = <<>> THEN <<t.kind>> ELSE <<t.kind>> \o KindsOf(t.ofType[1])

\* the characters of a text whose literals are single characters
RECURSIVE Flatten(_)
Flatten(text) ==
    IF text = <<>> THEN <<>>
    ELSE (IF Head(text).atom = "string" THEN Head(text).text ELSE <<Head(text).atom>>)
         \o Flatten(Tail(text))

\* n copies of the literal s
Repeated(s, n) == [j \in 1..n |-> Lit(s)[1]]

\* the openers that stand before the name: element k of the chain is wrapped
\* in optional< unless it is NonNull or stands directly inside a NonNull, and
\* a List opens std::vector<
RECURSIVE CppOpeners(_, _)
CppOpeners(kinds, k) ==
    IF k > Len(kinds) THEN <<>>
    ELSE (IF kinds[k] # "NonNull" /\ (k = 1 \/ kinds[k - 1] = "List") THEN Lit("optional<") ELSE <<>>)
         \o (IF kinds[k] = "List" THEN Lit("std::vector<") ELSE <<>>)
         \o CppOpeners(kinds, k + 1)

ObjectRef == NamedRef("Object", NameObject)

\* C12: cppTypeName renders NonNull(t) as t without optional, every TypeRef
\* whose outermost kind is not NonNull inside optional<...>, and List(e) as
\* std::vector<...> of the rendering of e, to any wrapping depth: the text is
\* the openers of the chain, the name, and one > per opener.
C12_CppTypeName ==
    cppName # NotRendered /\ ~cppName.failed =>
        LET openers == CppOpeners(KindsOf(typeRef), 1)
            text == cppName.generated
        IN /\ Len(text) = 2 * Len(openers) + 1
           /\ SubSeq(text, 1, Len(openers)) = openers
           /\ isCustomType(underlyingType(typeRef).kind) =>
                 text[Len(openers) + 1] = Str(underlyingType(typeRef).name[1])[1]
           /\ SubSeq(text, Len(openers) + 2, Len(text)) = Repeated(">", Len(openers))
           /\ typeRef.kind = "NonNull" => cppName = cppTypeName(typeRef.ofType[1], FALSE)
           /\ typeRef.kind # "NonNull" =>
                 text = Lit("optional<") \o cppTypeName(typeRef, FALSE).generated \o Lit(">")
           /\ typeRef.kind = "List" =>
                 text = Lit("optional<") \o Lit("std::vector<")
                        \o cppTypeName(typeRef.ofType[1], TRUE).generated \o Lit(">") \o Lit(">")

\* NonNull(List(NonNull(Object))) was rendered as std::vector<Object>
C12_Witness ==
    /\ typeRef = NonNullOf(ListOf(NonNullOf(ObjectRef)))
    /\ cppName.generated = Lit("std::vector<") \o Str(NameObject) \o Lit(">")

\* the closing marks behind the name, innermost wrapper first
RECURSIVE GraphqlClosers(_, _)
GraphqlClosers(kinds, k) ==
    IF k = 0 THEN <<>>
    ELSE (IF kinds[k] = "List" THEN <<"]">> ELSE IF kinds[k] = "NonNull" THEN <<"!">> ELSE <<>>)
         \o GraphqlClosers(kinds, k - 1)

\* C13: graphqlTypeName renders a named TypeRef as its name, List(t) as
\* [t] and NonNull(t) as t!: one [ per List in front of the name, behind it
\* one ] per List and one ! per NonNull, innermost first; and a TypeRef with
\* another wrapping renders differently.
C13_GraphqlTypeName ==
    graphqlName # <<>> =>
        LET kinds == KindsOf(typeRef)
            lists == Len(SelectSeq(kinds, LAMBDA kind : kind = "List"))
        IN /\ Flatten(graphqlName) =
                  [j \in 1..lists |-> "["] \o underlyingType(typeRef).name[1]
                  \o GraphqlClosers(kinds, Len(kinds))
           /\ \A other \in WrappedRefs(MaxWraps) :
                 SubSeq(KindsOf(other), 1, Len(KindsOf(other)) - 1) # SubSeq(kinds, 1, Len(kinds) - 1)
                     => Flatten(graphqlTypeName(other)) # Flatten(graphqlName)

\* NonNull(List(NonNull(Object))) was rendered as [Object!]!
C13_Witness ==
    /\ typeRef = NonNullOf(ListOf(NonNullOf(ObjectRef)))
    /\ Flatten(graphqlName) = <<"[">> \o NameObject \o <<"!", "]", "!">>

-----------------------------------------------------------------------------
(* The generators of declarations and decoders.  A generator that calls    *)
(* cppTypeName returns Rendered(text) or the Thrown(what) that left it.     *)

unknownCaseName == <<"U", "n", "k", "n", "o", "w", "n">>
cppJsonTypeName == "Json"
grapqlErrorTypeName == "GraphqlError"

EnumValue(name, description) == [name |-> name, description |-> description]

\* a += b where the evaluation of a or of b may throw
Then(a, b) ==
    IF a.failed THEN a
    ELSE IF b.failed THEN b
    ELSE Rendered(a.generated \o b.generated)

\* lines 154-185 for a description without line break
generateDescription(description, indentation) ==
    IF description = "" THEN <<>>
    ELSE indent(indentation) \o Lit("// ") \o Lit(description) \o Lit("\n")

RECURSIVE PascalFrom(_, _, _)
\* the loop of lines 191-203 from character j on
PascalFrom(snake, j, isFirstInWord) ==
    IF j > Len(snake) THEN <<>>
    ELSE IF snake[j] = "_" THEN PascalFrom(snake, j + 1, TRUE)
    ELSE IF isFirstInWord THEN <<toupper(snake[j])>> \o PascalFrom(snake, j + 1, FALSE)
    ELSE <<tolower(snake[j])>> \o PascalFrom(snake, j + 1, FALSE)

screamingSnakeCaseToPascalCase(snake) == PascalFrom(snake, 1, TRUE)

RECURSIVE EnumCases(_, _, _)
EnumCases(type, j, valueIndentation) ==
    IF j > Len(type.enumValues) THEN <<>>
    ELSE generateDescription(type.enumValues[j].description, valueIndentation)
         \o indent(valueIndentation) \o Str(screamingSnakeCaseToPascalCase(type.enumValues[j].name))
         \o Lit(",\n") \o EnumCases(type, j + 1, valueIndentation)

generateEnum(type, indentation) ==
    generateDescription(type.description, indentation)
    \o indent(indentation) \o Lit("enum class ") \o Str(type.name) \o Lit(" {\n")
    \o EnumCases(type, 1, indentation + 1)
    \o indent(indentation + 1) \o Str(unknownCaseName) \o Lit(" = -1\n")
    \o indent(indentation) \o Lit("};\n\n")

RECURSIVE EnumPairs(_, _, _)
EnumPairs(type, j, valueIndentation) ==
    IF j > Len(type.enumValues) THEN <<>>
    ELSE indent(valueIndentation) \o Lit("{") \o Str(type.name) \o Lit("::")
         \o Str(screamingSnakeCaseToPascalCase(type.enumValues[j].name))
         \o Lit(", \"") \o Str(type.enumValues[j].name) \o Lit("\"},\n")
         \o EnumPairs(type, j + 1, valueIndentation)

\* the entry of the unknown case stands behind the schema values
EnumEntriesUnknownLast(type, valueIndentation) ==
    EnumPairs(type, 1, valueIndentation)
    \o indent(valueIndentation) \o Lit("{") \o Str(type.name) \o Lit("::")
    \o Str(unknownCaseName) \o Lit(", nullptr},\n")

\* lines 244-249: the entry of the unknown case, then the schema values
EnumEntries(type, valueIndentation) ==
    indent(valueIndentation) \o Lit("{") \o Str(type.name) \o Lit("::")
    \o Str(unknownCaseName) \o Lit(", nullptr},\n")
    \o EnumPairs(type, 1, valueIndentation)

generateEnumSerialization(type, indentation) ==
    indent(indentation) \o Lit("NLOHMANN_JSON_SERIALIZE_ENUM(") \o Str(type.name) \o Lit(", {\n")
    \o EnumEntries(type, indentation + 1)
    \o indent(indentation) \o Lit("});\n\n")

RECURSIVE VariantCases(_, _)
VariantCases(possibleTypes, j) ==
    IF j > Len(possibleTypes) THEN <<>>
    ELSE Str(possibleTypes[j].name[1]) \o Lit(", ") \o VariantCases(possibleTypes, j + 1)

cppVariant(possibleTypes, unknownTypeName) ==
    Lit("variant<") \o VariantCases(possibleTypes, 1) \o Str(unknownTypeName) \o Lit(">")

generateDeserializationFunctionDeclaration(typeName, indentation) ==
    indent(indentation) \o Lit("inline void from_json(") \o Lit(cppJsonTypeName)
    \o Lit(" const & json, ") \o Str(typeName) \o Lit(" & value) {\n")

\* every field is looked up as an optional one
IsNeverRequired(field) == FALSE

\* field.type.kind == TypeKind::NonNull
IsRequired(field) == field.type.kind = "NonNull"

generateFieldDeserialization(field, indentation) ==
    IF IsRequired(field)
    THEN indent(indentation) \o Lit("json.at(\"") \o Str(field.name)
         \o Lit("\").get_to(value.") \o Str(field.name) \o Lit(");\n")
    ELSE indent(indentation) \o Lit("{\n")
         \o indent(indentation + 1) \o Lit("auto it = json.find(\"") \o Str(field.name) \o Lit("\");\n")
         \o indent(indentation + 1) \o Lit("if (it != json.end()) {\n")
         \o indent(indentation + 2) \o Lit("it->get_to(value.") \o Str(field.name) \o Lit(");\n")
         \o indent(indentation + 1) \o Lit("} else {\n")
         \o indent(indentation + 2) \o Lit("value.") \o Str(field.name) \o Lit(".reset();\n")
         \o indent(indentation + 1) \o Lit("}\n")
         \o indent(indentation) \o Lit("}\n")

RECURSIVE VariantBranches(_, _, _)
\* the chain compares occupiedType with no name
NoVariantBranches(type, j, indentation) == <<>>

\* the loop of lines 377-381 from possible type j on
VariantBranches(type, j, indentation) ==
    IF j > Len(type.possibleTypes) THEN <<>>
    ELSE Lit("if (occupiedType == \"") \o Str(type.possibleTypes[j].name[1]) \o Lit("\") {\n")
         \o indent(indentation + 2) \o Lit("value = {") \o Str(type.possibleTypes[j].name[1])
         \o Lit("(json)};\n")
         \o indent(indentation + 1) \o Lit("} else ")
         \o VariantBranches(type, j + 1, indentation)

generateVariantDeserialization(type, constructUnknown, indentation) ==
    generateDeserializationFunctionDeclaration(type.name, indentation)
    \o indent(indentation + 1) \o Lit("std::string occupiedType = json.at(\"__typename\");\n")
    \o indent(indentation + 1)
    \o VariantBranches(type, 1, indentation)
    \o Lit("{\n")
    \o indent(indentation + 2) \o Lit("value = {") \o constructUnknown \o Lit("};\n")
    \o indent(indentation + 1) \o Lit("}\n")
    \o indent(indentation) \o Lit("}\n\n")

RECURSIVE InterfaceFields(_, _, _)
\* the loop of lines 405-417 from field j on: the members of the unknown
\* implementation and the accessors of the interface
InterfaceFields(type, j, fieldIndentation) ==
    IF j > Len(type.fields) THEN [unknownImplementation |-> <<>>, interface |-> <<>>, failed |-> FALSE, what |-> <<>>]
    ELSE LET field == type.fields[j]
             typeName == cppTypeName(field.type, TRUE)
             typeNameConstRef == typeName.generated \o Lit(" const & ")
         IN IF typeName.failed
            THEN [unknownImplementation |-> <<>>, interface |-> <<>>, failed |-> TRUE, what |-> typeName.what]
            ELSE LET rest == InterfaceFields(type, j + 1, fieldIndentation) IN
                 IF rest.failed THEN rest
                 ELSE [unknownImplementation |->
                           indent(fieldIndentation) \o typeName.generated \o Lit(" ") \o Str(field.name)
                           \o Lit(";\n") \o rest.unknownImplementation,
                       interface |->
                           generateDescription(field.description, fieldIndentation)
                           \o indent(fieldIndentation) \o typeNameConstRef \o Str(field.name)
                           \o Lit("() const {\n")
                           \o indent(fieldIndentation + 1)
                           \o Lit("return visit([](auto const & implementation) -> ")
                           \o typeNameConstRef \o Lit("{\n")
                           \o indent(fieldIndentation + 2) \o Lit("return implementation.")
                           \o Str(field.name) \o Lit(";\n")
                           \o indent(fieldIndentation + 1) \o Lit("}, implementation);\n")
                           \o indent(fieldIndentation) \o Lit("}\n\n")
                           \o rest.interface,
                       failed |-> FALSE, what |-> <<>>]

generateInterface(type, indentation) ==
    LET unknownTypeName == unknownCaseName \o type.name
        members == InterfaceFields(type, 1, indentation + 1)
    IN IF members.failed THEN Thrown(members.what)
       ELSE Rendered(
                indent(indentation) \o Lit("struct ") \o Str(unknownTypeName) \o Lit(" {\n")
                \o members.unknownImplementation
                \o indent(indentation) \o Lit("};\n\n")
                \o generateDescription(type.description, indentation)
                \o indent(indentation) \o Lit("struct ") \o Str(type.name) \o Lit(" {\n")
                \o indent(indentation + 1) \o cppVariant(type.possibleTypes, unknownTypeName)
                \o Lit(" implementation;\n\n")
                \o members.interface
                \o indent(indentation) \o Lit("};\n\n"))

RECURSIVE FieldDeserializations(_, _, _)
FieldDeserializations(fields, j, indentation) ==
    IF j > Len(fields) THEN <<>>
    ELSE generateFieldDeserialization(fields[j], indentation)
         \o FieldDeserializations(fields, j + 1, indentation)

generateInterfaceUnknownCaseDeserialization(type, indentation) ==
    generateDeserializationFunctionDeclaration(unknownCaseName \o type.name, indentation)
    \o FieldDeserializations(type.fields, 1, indentation + 1)
    \o indent(indentation) \o Lit("}\n\n")

generateInterfaceDeserialization(type, indentation) ==
    generateInterfaceUnknownCaseDeserialization(type, indentation)
    \o generateVariantDeserialization(type, Str(unknownCaseName \o type.name) \o Lit("(json)"),
                                      indentation)

generateUnion(type, indentation) ==
    LET unknownTypeName == unknownCaseName \o type.name IN
    indent(indentation) \o Lit("using ") \o Str(unknownTypeName) \o Lit(" = monostate;\n")
    \o generateDescription(type.description, indentation)
    \o indent(indentation) \o Lit("using ") \o Str(type.name) \o Lit(" = ")
    \o cppVariant(type.possibleTypes, unknownTypeName) \o Lit(";\n\n")

generateUnionDeserialization(type, indentation) ==
    generateVariantDeserialization(type, Str(unknownCaseName \o type.name) \o Lit("()"), indentation)

\* the template generateField, for a Field or an InputValue
generateField(field, indentation) ==
    Then(Rendered(generateDescription(field.description, indentation) \o indent(indentation)),
         Then(cppTypeName(field.type, TRUE),
              Rendered(Lit(" ") \o Str(field.name) \o Lit(";\n"))))

RECURSIVE GeneratedFields(_, _, _)
GeneratedFields(fields, j, fieldIndentation) ==
    IF j > Len(fields) THEN Rendered(<<>>)
    ELSE Then(generateField(fields[j], fieldIndentation),
              GeneratedFields(fields, j + 1, fieldIndentation))

generateObject(type, indentation) ==
    Then(Rendered(generateDescription(type.description, indentation)
                  \o indent(indentation) \o Lit("struct ") \o Str(type.name) \o Lit(" {\n")),
         Then(GeneratedFields(type.fields, 1, indentation + 1),
              Rendered(indent(indentation) \o Lit("};\n\n"))))

generateObjectDeserialization(type, indentation) ==
    generateDeserializationFunctionDeclaration(type.name, indentation)
    \o FieldDeserializations(type.fields, 1, indentation + 1)
    \o indent(indentation) \o Lit("}\n\n")

generateInputObject(type, indentation) ==
    Then(Rendered(generateDescription(type.description, indentation)
                  \o indent(indentation) \o Lit("struct ") \o Str(type.name) \o Lit(" {\n")),
         Then(GeneratedFields(type.inputFields, 1, indentation + 1),
              Rendered(indent(indentation) \o Lit("};\n\n"))))

\* no member is written to the wire object
generateNoFieldSerialization(field, fieldPrefix, jsonName, indentation) == <<>>

\* fieldPrefix is "value." or "", jsonName is "json" or "variables"
generateFieldSerialization(field, fieldPrefix, jsonName, indentation) ==
    indent(indentation) \o Lit(jsonName) \o Lit("[\"") \o Str(field.name) \o Lit("\"] = ")
    \o (IF fieldPrefix = "" THEN <<>> ELSE Lit(fieldPrefix)) \o Str(field.name) \o Lit(";\n")

RECURSIVE FieldSerializations(_, _, _, _, _)
FieldSerializations(fields, j, fieldPrefix, jsonName, indentation) ==
    IF j > Len(fields) THEN <<>>
    ELSE generateFieldSerialization(fields[j], fieldPrefix, jsonName, indentation)
         \o FieldSerializations(fields, j + 1, fieldPrefix, jsonName, indentation)

generateInputObjectSerialization(type, indentation) ==
    indent(indentation) \o Lit("inline void to_json(") \o Lit(cppJsonTypeName) \o Lit(" & json, ")
    \o Str(type.name) \o Lit(" const & value) {\n")
    \o FieldSerializations(type.inputFields, 1, "value.", "json", indentation + 1)
    \o indent(indentation) \o Lit("}\n\n")

RECURSIVE shouldPassByReferenceToRequestFunction(_)
\* every type is passed by reference
shouldAlwaysPassByReference(type) == Rendered(TRUE)

\* Rendered(TRUE or FALSE), or what left the function
shouldPassByReferenceToRequestFunction(type) ==
    CASE type.kind = "Scalar" ->
            LET scalar == scalarType(type.name[1]) IN
            IF scalar.failed THEN scalar
            ELSE Rendered(scalar.generated \in {"String", "ID"})
      [] type.kind = "Enum" -> Rendered(FALSE)
      [] type.kind \in {"Object", "Interface", "Union", "InputObject", "List"} -> Rendered(TRUE)
      [] type.kind = "NonNull" ->
            IF type.ofType # <<>> THEN shouldPassByReferenceToRequestFunction(type.ofType[1])
            ELSE Thrown(Lit("Nonnull should be wrapped a type"))

\* typeMap.at or optional::value threw inside generateQueryDocument
QueryDocumentThrown == Thrown(Lit("std::out_of_range"))

RECURSIVE RequestParameters(_, _)
\* the loop of lines 710-720 from variable j on
RequestParameters(variables, j) ==
    IF j > Len(variables) THEN Rendered(<<>>)
    ELSE LET typeName == cppTypeName(variables[j].type, TRUE)
             byReference == shouldPassByReferenceToRequestFunction(variables[j].type)
         IN IF typeName.failed THEN typeName
            ELSE IF byReference.failed THEN byReference
            ELSE Then(Rendered(typeName.generated
                               \o (IF byReference.generated THEN Lit(" const &") ELSE <<>>)
                               \o Lit(" ") \o Str(variables[j].name)
                               \o (IF j # Len(variables) THEN Lit(", ") ELSE <<>>)),
                      RequestParameters(variables, j + 1))

\* lines 706-738: the request function around the query document
RequestFunctionAround(queryDocument, indentation) ==
    IF queryDocument.failed THEN QueryDocumentThrown
    ELSE Then(Rendered(indent(indentation) \o Lit("static ") \o Lit(cppJsonTypeName)
                       \o Lit(" request(")),
         Then(RequestParameters(queryDocument.variables, 1),
              Rendered(Lit(") {\n")
                       \o indent(indentation + 1) \o Lit(cppJsonTypeName)
                       \o Lit(" query = R\"(\n") \o queryDocument.query
                       \o indent(indentation + 1) \o Lit(")\";\n")
                       \o indent(indentation + 1) \o Lit(cppJsonTypeName)
                       \o Lit(" variables;\n")
                       \o FieldSerializations(queryDocument.variables, 1, "", "variables",
                                              indentation + 1)
                       \o indent(indentation + 1)
                       \o Lit("return {{\"query\", std::move(query)}, {\"variables\", std::move(variables)}};\n")
                       \o indent(indentation) \o Lit("}\n\n"))))

generateOperationRequestFunction(field, operation, tm, indentation) ==
    LET functionIndentation == indentation + 1
        queryIndentation == functionIndentation + 1
    IN RequestFunctionAround(generateQueryDocument(field, operation, tm, queryIndentation),
                             indentation)

\* the root field is looked up in data as an optional one
IsNeverRequiredInData(field) == FALSE

\* field.type.kind == TypeKind::NonNull, line 759
IsRequiredInData(field) == field.type.kind = "NonNull"

generateOperationResponseFunction(field, indentation) ==
    LET dataType == cppTypeName(field.type, TRUE) IN
    IF dataType.failed THEN dataType
    ELSE Rendered(
        indent(indentation) \o Lit("using ResponseData = ") \o dataType.generated \o Lit(";\n\n")
        \o indent(indentation) \o Lit("static ") \o Lit("GraphqlResponse<ResponseData>")
        \o Lit(" response(") \o Lit(cppJsonTypeName) \o Lit(" const & json) {\n")
        \o indent(indentation + 1) \o Lit("auto errors = json.find(\"errors\");\n")
        \o indent(indentation + 1) \o Lit("if (errors != json.end()) {\n")
        \o indent(indentation + 2) \o Lit("std::vector<") \o Lit(grapqlErrorTypeName) \o Lit(">")
        \o Lit(" errorsList = ") \o Lit("*errors;\n")
        \o indent(indentation + 2) \o Lit("return errorsList;\n")
        \o indent(indentation + 1) \o Lit("} else {\n")
        \o indent(indentation + 2) \o Lit("auto const & data = json.at(\"data\");\n")
        \o (IF IsRequiredInData(field)
            THEN indent(indentation + 2) \o Lit("return ResponseData(data.at(\"") \o Str(field.name)
                 \o Lit("\"));\n")
            ELSE indent(indentation + 2) \o Lit("auto it = data.find(\"") \o Str(field.name)
                 \o Lit("\");\n")
                 \o indent(indentation + 2) \o Lit("if (it != data.end()) {\n")
                 \o indent(indentation + 3) \o Lit("return ResponseData(*it);\n")
                 \o indent(indentation + 2) \o Lit("} else {\n")
                 \o indent(indentation + 3) \o Lit("return ResponseData{};\n")
                 \o indent(indentation + 2) \o Lit("}\n"))
        \o indent(indentation + 1) \o Lit("}\n")
        \o indent(indentation) \o Lit("}\n\n"))

generateOperationType(field, operation, tm, indentation) ==
    IF generateQueryDocument(field, operation, tm, 0).failed THEN QueryDocumentThrown
    ELSE Then(Rendered(generateDescription(field.description, indentation)
                       \o indent(indentation) \o Lit("struct ") \o Str(capitalize(field.name))
                       \o Lit("Field") \o Lit(" {\n\n")
                       \o indent(indentation + 1)
                       \o Lit("static Operation constexpr operation = Operation::")
                       \o Lit(operation) \o Lit(";\n\n")),
         Then(generateOperationRequestFunction(field, operation, tm, indentation + 1),
         Then(generateOperationResponseFunction(field, indentation + 1),
              Rendered(indent(indentation) \o Lit("};\n\n")))))

RECURSIVE OperationFields(_, _, _, _, _)
OperationFields(type, j, operation, tm, indentation) ==
    IF j > Len(type.fields) THEN Rendered(<<>>)
    ELSE Then(generateOperationType(type.fields[j], operation, tm, indentation),
              OperationFields(type, j + 1, operation, tm, indentation))

generateOperationTypes(type, operation, tm, indentation) ==
    Then(Rendered(indent(indentation) \o Lit("namespace ") \o Str(type.name) \o Lit(" {\n\n")),
         Then(OperationFields(type, 1, operation, tm, indentation + 1),
              Rendered(indent(indentation) \o Lit("} // namespace ") \o Str(type.name)
                       \o Lit("\n\n"))))

generateGraphqlErrorType(indentation) ==
    indent(indentation) \o Lit("struct ") \o Lit(grapqlErrorTypeName) \o Lit(" {\n")
    \o indent(indentation + 1) \o Lit("std::string message;\n")
    \o indent(indentation) \o Lit("};\n\n")
    \o indent(indentation) \o Lit("template <typename Data>\n")
    \o indent(indentation) \o Lit("using GraphqlResponse = variant<Data, std::vector<")
    \o Lit(grapqlErrorTypeName) \o Lit(">>;\n\n")

generateGraphqlErrorDeserialization(indentation) ==
    generateDeserializationFunctionDeclaration(<<"G", "r", "a", "p", "h", "q", "l", "E", "r", "r", "o", "r">>,
                                               indentation)
    \o indent(indentation + 1) \o Lit("json.at(\"message\").get_to(value.message);\n")
    \o indent(indentation) \o Lit("}\n\n")

algrebraicNamespaceName(namespace) ==
    CASE namespace = "Std" -> "std"
      [] namespace = "Absl" -> "absl"

\* the text of lines 864-890 with its five %s filled in
generateOptionalSerialization(namespace) ==
    LET namespaceName == algrebraicNamespaceName(namespace)
        optionalInclude == IF namespace = "Std" THEN "<optional>" ELSE "\"absl/types/optional.h\""
        variantInclude == IF namespace = "Std" THEN "<variant>" ELSE "\"absl/types/variant.h\""
    IN Lit("\n#include ") \o Lit(optionalInclude) \o Lit("\n#include ") \o Lit(variantInclude)
       \o Lit("\n\n// optional serialization\nnamespace nlohmann {\ntemplate <typename T>\nstruct adl_serializer<")
       \o Lit(namespaceName)
       \o Lit("::optional<T>> {\nstatic void to_json(json & json, ")
       \o Lit(namespaceName)
       \o Lit("::optional<T> const & opt) {\nif (opt.has_value()) {\njson = *opt;\n} else {\njson = nullptr;\n}\n}\n\nstatic void from_json(const json & json, ")
       \o Lit(namespaceName)
       \o Lit("::optional<T> & opt) {\nif (json.is_null()) {\nopt.reset();\n} else {\nopt = json.get<T>();\n}\n}\n};\n}\n\n")

\* special && special->name == type.name
isOperationType(special, type) == special # <<>> /\ special[1] = type.name

\* lines 959-965: the operation whose type the Object is, if any
operationOf(given, type) ==
    IF isOperationType(given.queryType, type) THEN "Query"
    ELSE IF isOperationType(given.mutationType, type) THEN "Mutation"
    ELSE IF isOperationType(given.subscriptionType, type) THEN "Subscription"
    ELSE "None"

\* one iteration of the switch of lines 956-994
GeneratedType(type, given, tm, typeIndentation) ==
    CASE type.kind = "Object" ->
            IF operationOf(given, type) # "None"
            THEN generateOperationTypes(type, operationOf(given, type), tm, typeIndentation)
            ELSE Then(generateObject(type, typeIndentation),
                      Rendered(generateObjectDeserialization(type, typeIndentation)))
      [] type.kind = "Interface" ->
            Then(generateInterface(type, typeIndentation),
                 Rendered(generateInterfaceDeserialization(type, typeIndentation)))
      [] type.kind = "Union" ->
            Rendered(generateUnion(type, typeIndentation)
                     \o generateUnionDeserialization(type, typeIndentation))
      [] type.kind = "Enum" ->
            Rendered(generateEnum(type, typeIndentation)
                     \o generateEnumSerialization(type, typeIndentation))
      [] type.kind = "InputObject" ->
            Then(generateInputObject(type, typeIndentation),
                 Rendered(generateInputObjectSerialization(type, typeIndentation)))
      [] OTHER -> Rendered(<<>>)

RECURSIVE GeneratedTypes(_, _, _, _, _)
\* the loop over sortedTypes from entry j on
GeneratedTypes(sorted, j, given, tm, typeIndentation) ==
    IF j > Len(sorted) THEN Rendered(<<>>)
    ELSE Then(GeneratedType(sorted[j], given, tm, typeIndentation),
              GeneratedTypes(sorted, j + 1, given, tm, typeIndentation))

\* lines 910-914: typeMap[type.name] = type, a later entry replacing an earlier
TypeMapOf(ts) ==
    [n \in {ts[i].name : i \in DOMAIN ts} |->
        ts[CHOOSE i \in DOMAIN ts : ts[i].name = n /\ \A k \in DOMAIN ts : ts[k].name = n => k <= i]]

generateTypes(given, generatedNamespace, namespace) ==
    LET sorted == SortOutcome(given.types)
        tm == TypeMapOf(given.types)
        typeIndentation == 1
        useAlgebraic(name) ==
            indent(typeIndentation) \o Lit("using ") \o Lit(algrebraicNamespaceName(namespace))
            \o Lit("::") \o Lit(name) \o Lit(";\n")
    IN IF sorted.thrown THEN Thrown(Lit("Circular dependencies in schema"))
       ELSE Then(Rendered(
                     Lit("// This file was automatically generated and should not be edited.\n#pragma once\n\n#include <memory>\n#include <vector>\n#include \"nlohmann/json.hpp\"")
                     \o generateOptionalSerialization(namespace)
                     \o Lit("namespace ") \o Str(generatedNamespace) \o Lit(" {\n\n")
                     \o indent(typeIndentation) \o Lit("using ") \o Lit(cppJsonTypeName)
                     \o Lit(" = nlohmann::json;\n")
                     \o indent(typeIndentation) \o Lit("using ") \o Lit(cppIdTypeName)
                     \o Lit(" = std::string;\n")
                     \o useAlgebraic("optional") \o useAlgebraic("variant")
                     \o useAlgebraic("monostate") \o useAlgebraic("visit")
                     \o Lit("\n")
                     \o indent(typeIndentation)
                     \o Lit("enum class Operation { Query, Mutation, Subscription };\n\n")
                     \o generateGraphqlErrorType(typeIndentation)
                     \o generateGraphqlErrorDeserialization(typeIndentation)),
            Then(GeneratedTypes(sorted.sorted, 1, given, tm, typeIndentation),
                 Rendered(Lit("} // namespace ") \o Str(generatedNamespace) \o Lit("\n"))))

GeneratedNamespace == <<"c", "a", "f", "f", "q", "l">>

\* generateTypes returns the source text
GenerateTypes ==
    /\ spc = "ready"
    /\ source' = generateTypes(schema, GeneratedNamespace, algebraicNamespace)
    /\ ~source'.failed
    /\ spc' = "returned"
    /\ UNCHANGED <<schema, algebraicNamespace, sortVars, queryVars, renderVars, codecVars, boxVars>>

\* an exception leaves generateTypes
GenerateTypesThrows ==
    /\ spc = "ready"
    /\ source' = generateTypes(schema, GeneratedNamespace, algebraicNamespace)
    /\ source'.failed
    /\ spc' = "thrown"
    /\ UNCHANGED <<schema, algebraicNamespace, sortVars, queryVars, renderVars, codecVars, boxVars>>

-----------------------------------------------------------------------------
(* Inputs of generateTypes: one schema in which each scalar reference is   *)
(* Int or the custom scalar Date                                            *)

\* most places of one schema that refer to the custom scalar
MaxCustomScalars == 2

NameQuery == <<"Q", "u", "e", "r", "y">>
NameLone == <<"L", "o", "n", "e">>
NameInput == <<"I", "n", "p", "u", "t">>
NameUn == <<"U", "n">>
NameThingField == <<"t", "h", "i", "n", "g">>
NameCount == <<"c", "o", "u", "n", "t">>

\* the places of the schema where a scalar is referred to
ScalarPlaces ==
    {"objectField", "inputField", "interfaceField", "rootType", "rootArg", "nestedArg",
     "unusedArg", "metaField"}

\* the five names scalarType knows
BuiltInScalars == {IntName, NameFloat, NameString, NameBoolean, NameID}

ScalarAt(places, place, known) == NamedRef("Scalar", IF place \in places THEN NameDate ELSE known)

\* type Query { thing(c: [S]!): Thing   count: S! }
\* type Thing { a(c: S): S }            type Lone { a(c: S): Int }
\* input Input { c: S! }                interface Iface { a: S }
\* type __M { a: S }   union Un = Thing | Lone   enum Color { RED }
SchemaTypes(places, known) ==
    << Type("Scalar", known, <<>>, <<>>, <<>>),
       Type("Scalar", NameDate, <<>>, <<>>, <<>>),
       Type("Object", MetaName, <<Field(ScalarAt(places, "metaField", known), NameA, "", <<>>)>>, <<>>, <<>>),
       Type("Object", NameQuery,
            <<Field(NamedRef("Object", NameThing), NameThingField, "",
                    <<InputValue(NonNullOf(ListOf(ScalarAt(places, "rootArg", known))), NameC, "")>>),
              Field(NonNullOf(ScalarAt(places, "rootType", known)), NameCount, "d", <<>>)>>,
            <<>>, <<>>),
       Type("Object", NameThing,
            <<Field(ScalarAt(places, "objectField", known), NameA, "",
                    <<InputValue(ScalarAt(places, "nestedArg", known), NameC, "")>>)>>,
            <<>>, <<>>),
       Type("Object", NameLone,
            <<Field(IntRef, NameA, "", <<InputValue(ScalarAt(places, "unusedArg", known), NameC, "")>>)>>,
            <<>>, <<>>),
       Type("InputObject", NameInput, <<>>,
            <<InputValue(NonNullOf(ScalarAt(places, "inputField", known)), NameC, "")>>, <<>>),
       Type("Interface", NameIface, <<Field(ScalarAt(places, "interfaceField", known), NameA, "", <<>>)>>,
            <<>>, <<NamedRef("Object", NameThing)>>),
       Type("Union", NameUn, <<>>, <<>>, <<NamedRef("Object", NameThing), NamedRef("Object", NameLone)>>),
       [Type("Enum", NameColor, <<>>, <<>>, <<>>) EXCEPT !.enumValues = <<EnumValue(<<"R", "E", "D">>, "")>>] >>

\* which operation type, if any, the schema declares Query to be
Designations == {"none", "query", "mutation", "subscription"}

SchemaOf(places, designation, known) ==
    [queryType |-> IF designation = "query" THEN <<NameQuery>> ELSE <<>>,
     mutationType |-> IF designation = "mutation" THEN <<NameQuery>> ELSE <<>>,
     subscriptionType |-> IF designation = "subscription" THEN <<NameQuery>> ELSE <<>>,
     types |-> SchemaTypes(places, known)]

GenerateInit ==
    /\ \E places \in {ps \in SUBSET ScalarPlaces : Cardinality(ps) <= MaxCustomScalars},
          designation \in Designations, known \in BuiltInScalars :
          /\ schema = SchemaOf(places, designation, known)
          /\ algebraicNamespace = (IF designation \in {"none", "mutation"} THEN "Absl" ELSE "Std")
    /\ source = NotRendered
    /\ spc = "ready"
    /\ SortIdle
    /\ QueryIdle
    /\ RenderIdle
    /\ CodecIdle
    /\ BoxIdle

GenerateNext == GenerateTypes \/ GenerateTypesThrows

GenerateSpec == GenerateInit /\ [][GenerateNext]_vars

-----------------------------------------------------------------------------
(* Scalars in the generated source *)

IsUnknownScalar(ref) ==
    underlyingType(ref).kind = "Scalar" /\ underlyingType(ref).name[1] \notin BuiltInScalars

\* the name the schema gives as the type of an operation
OperationOf(type) ==
    IF isOperationType(schema.queryType, type) THEN "Query"
    ELSE IF isOperationType(schema.mutationType, type) THEN "Mutation"
    ELSE IF isOperationType(schema.subscriptionType, type) THEN "Subscription"
    ELSE "none"

\* a declaration or an operation that is generated for type refers to a
\* scalar outside the five: as the type of a member, of the response data or
\* of a variable of the request
UsesUnknownScalar(type) ==
    /\ CustomInInput(type)
    /\ CASE type.kind = "InputObject" ->
               \E j \in DOMAIN type.inputFields : IsUnknownScalar(type.inputFields[j].type)
         [] type.kind = "Interface" \/ (type.kind = "Object" /\ OperationOf(type) = "none") ->
               \E j \in DOMAIN type.fields : IsUnknownScalar(type.fields[j].type)
         [] type.kind = "Object" /\ OperationOf(type) # "none" ->
               \E j \in DOMAIN type.fields :
                   \/ IsUnknownScalar(type.fields[j].type)
                   \/ LET variables == generateQueryDocument(type.fields[j], OperationOf(type),
                                                             TypeMapOf(schema.types), 0).variables
                      IN \E k \in DOMAIN variables : IsUnknownScalar(variables[k].type)
         [] OTHER -> FALSE

\* the position behind `struct name {` in the source text
MemberStart(text, name) ==
    CHOOSE j \in DOMAIN text :
        /\ j > 3 /\ IsLiteralAt(text, j - 3, "struct ") /\ text[j - 2] = Str(name)[1]
        /\ IsLiteralAt(text, j - 1, " {\n")

\* the C++ type of the claim for a built-in scalar
ScalarRendering(name) ==
    CASE name = IntName -> "int32_t"
      [] name = NameFloat -> "double"
      [] name = NameString -> "std::string"
      [] name = NameID -> "Id"
      [] name = NameBoolean -> "bool"

\* C14: Int, Float, String, ID and Boolean render as int32_t, double,
\* std::string, Id and bool (read off the member `c` of the generated struct
\* Input); a schema in which a generated declaration or operation uses
\* another scalar makes generateTypes throw, and the exception carries the
\* name of that scalar.
C14_UnknownScalarIsFatal ==
    /\ spc = "returned" =>
          /\ \A j \in DOMAIN schema.types : ~UsesUnknownScalar(schema.types[j])
          /\ LET member == MemberStart(source.generated, NameInput)
                 declaredType == schema.types[7].inputFields[1].type.ofType[1]
             IN /\ IsIndentAt(source.generated, member, 2)
                /\ IsLiteralAt(source.generated, member + 1, ScalarRendering(declaredType.name[1]))
                /\ IsLiteralAt(source.generated, member + 2, " ")
                /\ source.generated[member + 3] = Str(NameC)[1]
    /\ spc = "thrown" =>
          /\ \E j \in DOMAIN schema.types : UsesUnknownScalar(schema.types[j])
          /\ source.what = Lit("Invalid Scalar value: ") \o Str(NameDate)

\* generateTypes threw for a schema whose only reference to Date is the
\* argument of a field of Thing, which the operation thing of Query reaches
C14_Witness ==
    /\ spc = "thrown"
    /\ schema.queryType = <<NameQuery>>
    /\ \A j \in DOMAIN schema.types :
          UsesUnknownScalar(schema.types[j]) <=> schema.types[j].name = NameQuery
    /\ IsUnknownScalar(schema.types[5].fields[1].args[1].type)
    /\ ~IsUnknownScalar(schema.types[4].fields[1].args[1].type)
    /\ ~IsUnknownScalar(schema.types[4].fields[2].type)

-----------------------------------------------------------------------------
(* Running the generated code.  The wire format is nlohmann::json: a value *)
(* is null, a number, a string, an array or an object; json.at(key) throws  *)
(* out_of_range for a missing key, json.find(key) does not, and a           *)
(* conversion to a C++ type throws type_error for a value of another kind.  *)

JNull == [kind |-> "null", chars |-> <<>>, members |-> EmptyMap, items |-> <<>>]
JNumber(chars) == [kind |-> "number", chars |-> chars, members |-> EmptyMap, items |-> <<>>]
JString(chars) == [kind |-> "string", chars |-> chars, members |-> EmptyMap, items |-> <<>>]
JObject(members) == [kind |-> "object", chars |-> <<>>, members |-> members, items |-> <<>>]
JArray(items) == [kind |-> "array", chars |-> <<>>, members |-> EmptyMap, items |-> items]

\* json.find(key) != json.end()
HasKey(json, key) == json.kind = "object" /\ key \in DOMAIN json.members

\* a C++ value of type int32_t, std::string or optional<...> of them:
\* whether it holds a value, and the value
CppValue(chars) == [has |-> TRUE, chars |-> chars]
CppNullopt == [has |-> FALSE, chars |-> <<>>]

\* the generated code returned value, or threw error
Returned(value) == [thrown |-> FALSE, error |-> "", value |-> value]
Threw(error) == [thrown |-> TRUE, error |-> error, value |-> EmptyMap]

\* json.get_to(member) for a member whose declared C++ type is typeText:
\* adl_serializer<optional<T>>::from_json of lines 880-886, or the
\* conversion of nlohmann::json to an arithmetic type or a string
RECURSIVE FromJson(_, _)
FromJson(typeText, json) ==
    IF typeText[1].atom = "optional<"
    THEN IF json.kind = "null" THEN Returned(CppNullopt)
         ELSE FromJson(SubSeq(typeText, 2, Len(typeText) - 1), json)
    ELSE IF typeText[1].atom \in {"int32_t", "double"}
         THEN IF json.kind = "number" THEN Returned(CppValue(json.chars)) ELSE Threw("type_error")
    ELSE IF typeText[1].atom \in {"std::string", "Id"}
         THEN IF json.kind = "string" THEN Returned(CppValue(json.chars)) ELSE Threw("type_error")
    ELSE Threw("type_error")

\* json[key] = member for a member whose declared C++ type is typeText:
\* adl_serializer<optional<T>>::to_json of lines 872-878
ToJson(typeText, member) ==
    IF typeText[1].atom = "optional<" /\ ~member.has THEN JNull
    ELSE IF typeText[Len(typeText) - (IF typeText[1].atom = "optional<" THEN 1 ELSE 0)].atom
               \in {"std::string", "Id"}
         THEN JString(member.chars)
         ELSE JNumber(member.chars)

\* the position of the first statement of from_json(Json const &, typeName &)
FunctionBody(text, functionName, parameter, typeName, tail) ==
    CHOOSE j \in DOMAIN text :
        /\ j > 5
        /\ IsLiteralAt(text, j - 5, functionName) /\ IsLiteralAt(text, j - 4, cppJsonTypeName)
        /\ IsLiteralAt(text, j - 3, parameter) /\ text[j - 2] = Str(typeName)[1]
        /\ IsLiteralAt(text, j - 1, tail)

DecoderBody(text, typeName) ==
    FunctionBody(text, "inline void from_json(", " const & json, ", typeName, " & value) {\n")

\* the declared C++ type of a member of struct structName, read off the
\* generated declaration `type member;`
MemberType(text, structName, member) ==
    LET start == MemberStart(text, structName)
        at == CHOOSE q \in DOMAIN text :
                  /\ q > start /\ text[q] = Str(member)[1]
                  /\ IsLiteralAt(text, q - 1, " ") /\ IsLiteralAt(text, q + 1, ";\n")
                  /\ \A k \in start..(q - 1) : ~IsLiteralAt(text, k, "};\n\n")
        first == CHOOSE i \in start..at :
                     /\ text[i].atom = "indent"
                     /\ \A k \in (i + 1)..at : text[k].atom # "indent"
    IN SubSeq(text, first + 1, at - 2)

RECURSIVE RunFieldStatements(_, _, _, _, _)
\* executes the statements that generateFieldDeserialization emitted, from
\* the statement at position k (its indentation) to the end of the function
RunFieldStatements(text, k, structName, json, value) ==
    IF IsLiteralAt(text, k + 1, "json.at(\"")
    THEN LET key == text[k + 2].text
             member == text[k + 4].text
         IN IF json.kind # "object" THEN Threw("type_error")
            ELSE IF ~HasKey(json, key) THEN Threw("out_of_range")
            ELSE LET got == FromJson(MemberType(text, structName, member), json.members[key]) IN
                 IF got.thrown THEN got
                 ELSE RunFieldStatements(text, k + 6, structName, json,
                                         (member :> got.value) @@ value)
    ELSE IF IsLiteralAt(text, k + 1, "{\n") /\ IsLiteralAt(text, k + 3, "auto it = json.find(\"")
    THEN LET key == text[k + 4].text
             member == text[k + 10].text
             resetMember == text[k + 16].text
         IN IF HasKey(json, key)
            THEN LET got == FromJson(MemberType(text, structName, member), json.members[key]) IN
                 IF got.thrown THEN got
                 ELSE RunFieldStatements(text, k + 22, structName, json,
                                         (member :> got.value) @@ value)
            ELSE RunFieldStatements(text, k + 22, structName, json,
                                    (resetMember :> CppNullopt) @@ value)
    ELSE Returned(value)

\* a default-constructed struct: no member assigned yet
NoMembers == EmptyMap

\* from_json(json, value) for the struct typeName
RunObjectDecoder(text, typeName, json) ==
    RunFieldStatements(text, DecoderBody(text, typeName), typeName, json, NoMembers)

TypenameKey == <<"_", "_", "t", "y", "p", "e", "n", "a", "m", "e">>

\* whether the text holds from_json(Json const &, typeName &)
HasDecoder(text, typeName) ==
    \E j \in DOMAIN text :
        /\ j > 5
        /\ IsLiteralAt(text, j - 5, "inline void from_json(") /\ text[j - 2] = Str(typeName)[1]
        /\ IsLiteralAt(text, j - 1, " & value) {\n")

\* value = {name(json)} or value = {name()}: the alternative name of the
\* variant, converted from the payload or value-initialized.  The members
\* are those of the conversion when the text holds the decoder of name.
Construct(text, name, arguments, json) ==
    IF arguments = "()" THEN Returned([alternative |-> name, argument |-> <<>>, members |-> EmptyMap])
    ELSE IF HasDecoder(text, name)
    THEN LET converted == RunObjectDecoder(text, name, json) IN
         IF converted.thrown THEN converted
         ELSE Returned([alternative |-> name, argument |-> <<json>>, members |-> converted.value])
    ELSE Returned([alternative |-> name, argument |-> <<json>>, members |-> EmptyMap])

RECURSIVE RunBranches(_, _, _, _)
\* the if / else-if chain that lines 377-385 emitted, from the branch at b
RunBranches(text, b, occupiedType, json) ==
    IF IsLiteralAt(text, b, "if (occupiedType == \"")
    THEN IF occupiedType = text[b + 1].text
         THEN Construct(text, text[b + 5].text, "(json)", json)
         ELSE RunBranches(text, b + 9, occupiedType, json)
    ELSE Construct(text, text[b + 3].text, text[b + 4].atom, json)

\* from_json(json, value) for the Interface or Union typeName
RunVariantDecoder(text, typeName, json) ==
    LET k == DecoderBody(text, typeName) IN
    IF json.kind # "object" THEN Threw("type_error")
    ELSE IF IsLiteralAt(text, k + 1, "std::string occupiedType = json.at(\"__typename\");\n")
    THEN IF ~HasKey(json, TypenameKey) THEN Threw("out_of_range")
         ELSE IF json.members[TypenameKey].kind # "string" THEN Threw("type_error")
         ELSE RunBranches(text, k + 3, json.members[TypenameKey].chars, json)
    ELSE RunBranches(text, k + 3, <<>>, json)

RECURSIVE EnumMapping(_, _)
\* the entries of NLOHMANN_JSON_SERIALIZE_ENUM from the entry at k on
EnumMapping(text, k) ==
    IF ~IsLiteralAt(text, k + 1, "{") THEN <<>>
    ELSE IF IsLiteralAt(text, k + 5, ", nullptr},\n")
    THEN <<[enumerator |-> text[k + 4].text, wire |-> JNull]>> \o EnumMapping(text, k + 6)
    ELSE <<[enumerator |-> text[k + 4].text, wire |-> JString(text[k + 6].text)]>>
         \o EnumMapping(text, k + 8)

MappingStart(text, typeName) ==
    CHOOSE j \in DOMAIN text :
        /\ j > 3 /\ IsLiteralAt(text, j - 3, "NLOHMANN_JSON_SERIALIZE_ENUM(")
        /\ text[j - 2] = Str(typeName)[1] /\ IsLiteralAt(text, j - 1, ", {\n")

\* operator== of nlohmann::json for the values of a mapping
SameJson(a, b) == a.kind = b.kind /\ a.chars = b.chars

\* the from_json that NLOHMANN_JSON_SERIALIZE_ENUM defines: the first entry
\* whose wire value equals json, or the first entry when there is none
RunEnumDecoder(text, typeName, json) ==
    LET m == EnumMapping(text, MappingStart(text, typeName))
        matching == {j \in DOMAIN m : SameJson(m[j].wire, json)}
    IN IF matching # {}
       THEN LET first == CHOOSE j \in matching : \A other \in matching : j <= other
            IN Returned([enumerator |-> m[first].enumerator, entry |-> first])
       ELSE Returned([enumerator |-> m[1].enumerator, entry |-> 1])

RECURSIVE RunFieldSerializations(_, _, _, _, _)
\* the statements that generateFieldSerialization emitted, from the one at k
RunFieldSerializations(text, k, structName, value, json) ==
    IF IsLiteralAt(text, k + 1, "json") /\ IsLiteralAt(text, k + 2, "[\"")
    THEN LET key == text[k + 3].text
             member == text[k + 6].text
         IN RunFieldSerializations(text, k + 8, structName, value,
                JObject((key :> ToJson(MemberType(text, structName, member), value[member]))
                        @@ json.members))
    ELSE json

\* to_json(json, value) for the struct typeName; json is null before
RunEncoder(text, typeName, value) ==
    RunFieldSerializations(
        text, FunctionBody(text, "inline void to_json(", " & json, ", typeName, " const & value) {\n"),
        typeName, value, JNull)

MessageKey == <<"m", "e", "s", "s", "a", "g", "e">>
ErrorsKey == <<"e", "r", "r", "o", "r", "s">>
DataKey == <<"d", "a", "t", "a">>

\* std::vector<GraphqlError> errorsList = *errors, each element through the
\* from_json of lines 824-832
ErrorsList(json) ==
    IF json.kind # "array" THEN Threw("type_error")
    ELSE IF \E j \in DOMAIN json.items : json.items[j].kind # "object" THEN Threw("type_error")
    ELSE IF \E j \in DOMAIN json.items : ~HasKey(json.items[j], MessageKey) THEN Threw("out_of_range")
    ELSE IF \E j \in DOMAIN json.items : json.items[j].members[MessageKey].kind # "string"
         THEN Threw("type_error")
    ELSE Returned([alternative |-> "errors",
                   data |-> CppNullopt,
                   errorsList |-> [j \in DOMAIN json.items |-> json.items[j].members[MessageKey].chars]])

\* ResponseData(json): for an optional it is the converting constructor
\* optional(U &&) that is chosen, which converts json to the value type, so
\* that null is a type_error here and not the empty optional
Constructed(typeText, json) ==
    IF typeText[1].atom = "optional<"
    THEN FromJson(SubSeq(typeText, 2, Len(typeText) - 1), json)
    ELSE FromJson(typeText, json)

ResponseOf(got) ==
    IF got.thrown THEN got
    ELSE Returned([alternative |-> "data", data |-> got.value, errorsList |-> <<>>])

\* the static function response(json) that lines 741-775 emitted
RunResponse(text, json) ==
    LET use == CHOOSE j \in DOMAIN text : IsLiteralAt(text, j, "using ResponseData = ")
        useEnd == CHOOSE j \in DOMAIN text :
                      /\ j > use /\ IsLiteralAt(text, j, ";\n\n")
                      /\ \A k \in (use + 1)..(j - 1) : ~IsLiteralAt(text, k, ";\n\n")
        ResponseData == SubSeq(text, use + 1, useEnd - 1)
        first == CHOOSE j \in DOMAIN text : IsLiteralAt(text, j, "auto errors = json.find(\"errors\");\n")
        \* first + 2: if (errors != json.end()); first + 10: return errorsList;
        \* first + 14: auto const & data = json.at("data");
        next == first + 16
    IN IF IsLiteralAt(text, first + 2, "if (errors != json.end()) {\n") /\ HasKey(json, ErrorsKey)
       THEN ErrorsList(json.members[ErrorsKey])
       ELSE IF ~HasKey(json, DataKey) THEN Threw(IF json.kind = "object" THEN "out_of_range" ELSE "type_error")
       ELSE LET data == json.members[DataKey] IN
            IF IsLiteralAt(text, next, "return ResponseData(data.at(\"")
            THEN IF data.kind # "object" THEN Threw("type_error")
                 ELSE IF ~HasKey(data, text[next + 1].text) THEN Threw("out_of_range")
                 ELSE ResponseOf(Constructed(ResponseData, data.members[text[next + 1].text]))
            ELSE IF HasKey(data, text[next + 1].text)
                 THEN ResponseOf(Constructed(ResponseData, data.members[text[next + 1].text]))
                 ELSE ResponseOf(Returned(CppNullopt))

-----------------------------------------------------------------------------
(* Generated code at work: a schema of one declared type (two for an input  *)
(* object), the code generateTypes emits for it, and a run of that code on  *)
(* a wire payload or a value                                                *)

\* most fields, possible types or enum values of the declared type
MaxMembers == 2

NameB == <<"b">>
NameOther == <<"O", "t", "h", "e", "r">>
Seven == <<"7">>
Oops == <<"o", "o", "p", "s">>

MemberNames == {NameA, NameB, NameC}
MemberTypes == {IntRef, NonNullOf(IntRef)}

\* the field lists: distinct names, each field Int or Int!
FieldLists(n) ==
    {[j \in DOMAIN names |-> Field(ts[j], names[j], "", <<>>)] :
        names \in InjectiveSeqs(MemberNames, n), ts \in [1..n -> MemberTypes]}

AsInputValues(fields) ==
    [j \in DOMAIN fields |-> InputValue(fields[j].type, fields[j].name, "")]

PossibleNames == {NameThing, NameImpA, NameImpB}

PossibleLists(n) ==
    {[j \in DOMAIN names |-> NamedRef("Object", names[j])] : names \in InjectiveSeqs(PossibleNames, n)}

NameRed == <<"R", "E", "D">>
NameDarkRed == <<"D", "A", "R", "K", "_", "R", "E", "D">>
NameUnknownValue == <<"U", "N", "K", "N", "O", "W", "N">>
NameBlue == <<"B", "L", "U", "E">>
ValueNames == {NameRed, NameDarkRed, NameUnknownValue}

EnumLists(n) ==
    {[j \in DOMAIN names |-> EnumValue(names[j], "")] : names \in InjectiveSeqs(ValueNames, n)}

\* the wire objects over the keys: each key absent, null or 7
WireObjects(keys) ==
    {JObject(m) : m \in UNION {[present -> {JNull, JNumber(Seven)}] : present \in SUBSET keys}}

\* the discriminators of a payload: none, a name, or a value that is no string
Discriminators ==
    {EmptyMap} \cup {TypenameKey :> JString(name) : name \in PossibleNames \cup {NameOther}}
    \cup {TypenameKey :> JNumber(Seven)}

\* the populated values of a struct with the fields: a required member
\* holds 7, an optional member holds 7 or nothing
StructValues(fields) ==
    {v \in [{fields[j].name : j \in DOMAIN fields} -> {CppValue(Seven), CppNullopt}] :
        \A j \in DOMAIN fields : fields[j].type.kind = "NonNull" => v[fields[j].name].has}

ErrorObject(message) == JObject(MessageKey :> JString(message))

\* the response payloads: errors absent, an empty list, a list of one error,
\* a list of two, or no list; data absent, null, or an object
ResponsePayloads ==
    {JObject(errors @@ data) :
        errors \in {EmptyMap, ErrorsKey :> JArray(<<>>), ErrorsKey :> JArray(<<ErrorObject(Oops)>>),
                    ErrorsKey :> JArray(<<ErrorObject(Oops), ErrorObject(Seven)>>),
                    ErrorsKey :> JNull},
        data \in {EmptyMap, DataKey :> JNull, DataKey :> JObject(EmptyMap),
                  DataKey :> JObject(NameCount :> JNumber(Seven)),
                  DataKey :> JObject(NameCount :> JNull)}}

SchemaWith(designation, ts) ==
    [queryType |-> IF designation = "query" THEN <<ts[1].name>> ELSE <<>>,
     mutationType |-> IF designation = "mutation" THEN <<ts[1].name>> ELSE <<>>,
     subscriptionType |-> IF designation = "subscription" THEN <<ts[1].name>> ELSE <<>>,
     types |-> ts]

CodecInput(given, on) == [given |-> given, on |-> on]

\* type Thing { fields } and a wire object
ObjectInputs ==
    {CodecInput(SchemaWith("none", <<Type("Object", NameThing, fields, <<>>, <<>>)>>), wire) :
        fields \in FieldLists(MaxMembers), wire \in {JNull} \cup WireObjects(MemberNames)}

\* interface Iface { a } with possible types, and a wire object
InterfaceInputs ==
    {CodecInput(SchemaWith("none", <<Type("Interface", NameIface, fields, <<>>, possible)>>),
                JObject(wire.members @@ discriminator)) :
        fields \in FieldLists(1) \cap FieldLists(MaxMembers), possible \in PossibleLists(MaxMembers),
        wire \in WireObjects({NameA}), discriminator \in Discriminators}

\* union Un = possible types, and a wire object
UnionInputs ==
    {CodecInput(SchemaWith("none", <<Type("Union", NameUn, <<>>, <<>>, possible)>>),
                JObject(discriminator)) :
        possible \in PossibleLists(MaxMembers), discriminator \in Discriminators}

\* enum Color { values } and a wire value
EnumInputs ==
    {CodecInput(SchemaWith("none", <<[Type("Enum", NameColor, <<>>, <<>>, <<>>)
                                        EXCEPT !.enumValues = values]>>), wire) :
        values \in EnumLists(MaxMembers),
        wire \in {JString(name) : name \in ValueNames \cup {NameBlue}} \cup {JNull, JNumber(Seven)}}

\* type Query { count: Int } or { count: Int! } as an operation type, and a
\* response payload
ResponseInputs ==
    {CodecInput(SchemaWith(designation, <<Type("Object", NameQuery, <<Field(type, NameCount, "", <<>>)>>,
                                               <<>>, <<>>)>>), wire) :
        designation \in {"query", "mutation", "subscription"}, type \in MemberTypes,
        wire \in ResponsePayloads}

\* input Input { fields } beside type Thing { fields }, and a value of Input
InputObjectInputs ==
    UNION {{CodecInput(SchemaWith("none", <<Type("InputObject", NameInput, <<>>, AsInputValues(fields), <<>>),
                                            Type("Object", NameThing, fields, <<>>, <<>>)>>), value) :
               value \in StructValues(fields)} : fields \in FieldLists(MaxMembers)}

\* the generator is given the schema and the generated code the payload
Given(input) ==
    /\ schema = input.given
    /\ declared = input.given.types[1]
    /\ payload = input.on

CodecInit ==
    /\ \/ \E input \in ObjectInputs : Given(input)
       \/ \E input \in InterfaceInputs : Given(input)
       \/ \E input \in UnionInputs : Given(input)
       \/ \E input \in EnumInputs : Given(input)
       \/ \E input \in ResponseInputs : Given(input)
       \/ \E input \in InputObjectInputs : Given(input)
    /\ algebraicNamespace = "Std"
    /\ source = NotRendered
    /\ spc = "idle"
    /\ emitted = <<>>
    /\ outcome = <<>>
    /\ cpc = "ready"
    /\ SortIdle
    /\ QueryIdle
    /\ RenderIdle
    /\ BoxIdle

\* one iteration of the loop of generateTypes per type of the schema: the
\* code of the declared type, and of the Object beside an input object
EmitCode ==
    /\ cpc = "ready"
    /\ emitted' = GeneratedTypes(schema.types, 1, schema, TypeMapOf(schema.types), 1).generated
    /\ cpc' = "emitted"
    /\ UNCHANGED <<declared, payload, outcome, sortVars, queryVars, renderVars, schemaVars, boxVars>>

IsOperation(type) ==
    \/ isOperationType(schema.queryType, type)
    \/ isOperationType(schema.mutationType, type)
    \/ isOperationType(schema.subscriptionType, type)

\* the generated from_json of the Object runs on the payload
DecodeObject ==
    /\ cpc = "emitted"
    /\ declared.kind = "Object" /\ ~IsOperation(declared)
    /\ outcome' = RunObjectDecoder(emitted, declared.name, payload)
    /\ cpc' = "decoded"
    /\ UNCHANGED <<declared, emitted, payload, sortVars, queryVars, renderVars, schemaVars, boxVars>>

\* the generated from_json of the Interface or Union runs on the payload
DecodeVariant ==
    /\ cpc = "emitted"
    /\ declared.kind \in {"Interface", "Union"}
    /\ outcome' = RunVariantDecoder(emitted, declared.name, payload)
    /\ cpc' = "decoded"
    /\ UNCHANGED <<declared, emitted, payload, sortVars, queryVars, renderVars, schemaVars, boxVars>>

\* the from_json of the generated enum mapping runs on the payload
DecodeEnum ==
    /\ cpc = "emitted"
    /\ declared.kind = "Enum"
    /\ outcome' = RunEnumDecoder(emitted, declared.name, payload)
    /\ cpc' = "decoded"
    /\ UNCHANGED <<declared, emitted, payload, sortVars, queryVars, renderVars, schemaVars, boxVars>>

\* the generated response function of the root field runs on the payload
DecodeResponse ==
    /\ cpc = "emitted"
    /\ declared.kind = "Object" /\ IsOperation(declared)
    /\ outcome' = RunResponse(emitted, payload)
    /\ cpc' = "decoded"
    /\ UNCHANGED <<declared, emitted, payload, sortVars, queryVars, renderVars, schemaVars, boxVars>>

\* the generated to_json of the InputObject runs on the value
Encode ==
    /\ cpc = "emitted"
    /\ declared.kind = "InputObject"
    /\ outcome' = Returned(RunEncoder(emitted, declared.name, payload))
    /\ cpc' = "encoded"
    /\ UNCHANGED <<declared, emitted, payload, sortVars, queryVars, renderVars, schemaVars, boxVars>>

\* the generated from_json of the Object beside the InputObject runs on
\* what the encoder produced
DecodeBack ==
    /\ cpc = "encoded"
    /\ outcome' = RunObjectDecoder(emitted, schema.types[2].name, outcome.value)
    /\ cpc' = "decodedBack"
    /\ UNCHANGED <<declared, emitted, payload, sortVars, queryVars, renderVars, schemaVars, boxVars>>

CodecNext ==
    \/ EmitCode
    \/ DecodeObject
    \/ DecodeVariant
    \/ DecodeEnum
    \/ DecodeResponse
    \/ Encode
    \/ DecodeBack

CodecSpec == CodecInit /\ [][CodecNext]_vars

-----------------------------------------------------------------------------
(* Vocabulary of the claims about the generated decoders *)

\* the positions 1..Len(text) in order
Positions(text) == [j \in 1..Len(text) |-> j]

IsVariant == declared.kind \in {"Interface", "Union"}

DeclaredPossibleNames == [j \in DOMAIN declared.possibleTypes |-> declared.possibleTypes[j].name[1]]

\* the names the generated chain compares occupiedType with, in text order
ComparedNames(text) ==
    LET at == SelectSeq(Positions(text), LAMBDA j : IsLiteralAt(text, j, "if (occupiedType == \""))
    IN [k \in DOMAIN at |-> text[at[k] + 1].text]

\* the keys the generated decoder of typeName looks up, in text order, and
\* whether the lookup is the required one
Lookups(text, typeName) ==
    LET from == DecoderBody(text, typeName)
        to == CHOOSE j \in from..Len(text) :
                  /\ IsLiteralAt(text, j, "}\n\n")
                  /\ \A k \in from..(j - 1) : ~IsLiteralAt(text, k, "}\n\n")
        at == SelectSeq(Positions(text),
                        LAMBDA j : /\ j >= from /\ j < to
                                   /\ \/ IsLiteralAt(text, j, "json.at(\"")
                                      \/ IsLiteralAt(text, j, "auto it = json.find(\""))
    IN [k \in DOMAIN at |-> [key |-> text[at[k] + 1].text,
                             required |-> IsLiteralAt(text, at[k], "json.at(\"")]]

\* what the wire object holds for the field: "missing", "null" or "number"
WireOf(json, field) ==
    IF ~HasKey(json, field.name) THEN "missing" ELSE json.members[field.name].kind

\* a NonNull field cannot be read: its key is missing or holds null
Unreadable(json, field) == field.type.kind = "NonNull" /\ WireOf(json, field) # "number"

\* the members a decoder should produce from the wire object
ExpectedMembers(fields, json) ==
    [name \in {fields[j].name : j \in DOMAIN fields} |->
        IF HasKey(json, name) /\ json.members[name].kind = "number"
        THEN CppValue(json.members[name].chars)
        ELSE CppNullopt]

\* what decoding the fields from the wire object should come to: the error
\* of the first field that cannot be read, or the members
ExpectedDecode(fields, json) ==
    LET failing == {j \in DOMAIN fields : Unreadable(json, fields[j])} IN
    IF failing = {} THEN Returned(ExpectedMembers(fields, json))
    ELSE LET first == CHOOSE j \in failing : \A other \in failing : j <= other IN
         IF json.kind = "object" /\ WireOf(json, fields[first]) = "missing"
         THEN Threw("out_of_range")
         ELSE Threw("type_error")

\* C15: the generated decoder of an Interface or Union compares __typename
\* with the names of the possible types in their order and constructs the
\* case of the type that matches; a __typename that equals no possible name
\* constructs the unknown case, decoded from the payload as the record of
\* the interface fields for an Interface, the unit marker for a Union.
C15_Dispatch ==
    (cpc = "decoded" /\ IsVariant
        /\ HasKey(payload, TypenameKey) /\ payload.members[TypenameKey].kind = "string") =>
        LET occupiedType == payload.members[TypenameKey].chars
            unknown == unknownCaseName \o declared.name
        IN /\ ComparedNames(emitted) = DeclaredPossibleNames
           /\ (\E j \in DOMAIN DeclaredPossibleNames : DeclaredPossibleNames[j] = occupiedType) =>
                 /\ ~outcome.thrown
                 /\ outcome.value.alternative = occupiedType
                 /\ outcome.value.argument = <<payload>>
           /\ (\A j \in DOMAIN DeclaredPossibleNames : DeclaredPossibleNames[j] # occupiedType) =>
                 IF declared.kind = "Union"
                 THEN /\ ~outcome.thrown
                      /\ outcome.value.alternative = unknown
                      /\ outcome.value.argument = <<>>
                 ELSE LET expected == ExpectedDecode(declared.fields, payload) IN
                      /\ outcome.thrown = expected.thrown
                      /\ outcome.thrown => outcome.error = expected.error
                      /\ ~outcome.thrown =>
                            /\ outcome.value.alternative = unknown
                            /\ outcome.value.argument = <<payload>>
                            /\ outcome.value.members = expected.value

\* the interface with the possible types ImpA and Thing decoded a payload
\* whose __typename is Thing to the case Thing
C15_Witness ==
    /\ cpc = "decoded"
    /\ declared.kind = "Interface"
    /\ DeclaredPossibleNames = <<NameImpA, NameThing>>
    /\ HasKey(payload, TypenameKey)
    /\ payload.members[TypenameKey] = JString(NameThing)
    /\ ~outcome.thrown
    /\ outcome.value.alternative = NameThing

\* C16: a payload without a __typename key is decoded to the unknown case
\* by the generated Interface or Union decoder, and not to a decode error.
C16_MissingDiscriminator ==
    (cpc = "decoded" /\ IsVariant /\ ~HasKey(payload, TypenameKey)) =>
        /\ ~outcome.thrown
        /\ outcome.value.alternative = unknownCaseName \o declared.name

\* C17: the generated Object decoder looks up each declared field once, in
\* declaration order, with the required lookup exactly for the fields whose
\* outermost kind is NonNull; a missing key of a NonNull field is the decode
\* error out_of_range, a missing key of any other field leaves the member
\* absent.
C17_ObjectDecoding ==
    (cpc = "decoded" /\ declared.kind = "Object" /\ ~IsOperation(declared)) =>
        LET expected == ExpectedDecode(declared.fields, payload) IN
        /\ Lookups(emitted, declared.name) =
              [j \in DOMAIN declared.fields |->
                  [key |-> declared.fields[j].name,
                   required |-> declared.fields[j].type.kind = "NonNull"]]
        /\ outcome.thrown = expected.thrown
        /\ outcome.thrown => outcome.error = expected.error
        /\ ~outcome.thrown => outcome.value = expected.value
        /\ \A j \in DOMAIN declared.fields :
              LET field == declared.fields[j] IN
              /\ (payload.kind = "object" /\ field.type.kind = "NonNull"
                     /\ WireOf(payload, field) = "missing") => outcome.thrown
              /\ (~outcome.thrown /\ field.type.kind # "NonNull"
                     /\ WireOf(payload, field) = "missing") => ~outcome.value[field.name].has

\* type Thing { a: Int!  b: Int } decoded the wire object { "a": 7 } to a
\* value whose a is 7 and whose b is absent
C17_Witness ==
    /\ cpc = "decoded"
    /\ declared.kind = "Object"
    /\ Len(declared.fields) = 2
    /\ declared.fields[1] = Field(NonNullOf(IntRef), NameA, "", <<>>)
    /\ declared.fields[2] = Field(IntRef, NameB, "", <<>>)
    /\ payload.kind = "object" /\ DOMAIN payload.members = {NameA}
    /\ ~outcome.thrown
    /\ outcome.value[NameA] = CppValue(Seven)
    /\ outcome.value[NameB] = CppNullopt

\* the case identifiers of the generated enum class in text order, and
\* whether the case is the one that is given the value -1
EnumCaseIdentifiers(text) ==
    LET to == MappingStart(text, declared.name)
        at == SelectSeq(Positions(text),
                        LAMBDA j : /\ j < to /\ IsStringAt(text, j) /\ IsIndentAt(text, j - 1, 2)
                                   /\ \/ IsLiteralAt(text, j + 1, ",\n")
                                      \/ IsLiteralAt(text, j + 1, " = -1\n"))
    IN [k \in DOMAIN at |-> [identifier |-> text[at[k]].text,
                             synthetic |-> IsLiteralAt(text, at[k] + 1, " = -1\n")]]

\* C18: for every Enum type, also one without values, the generated enum
\* has one case per schema value and then the synthetic case Unknown; the
\* generated wire mapping has the entry of Unknown first and then one entry
\* per schema value; and a wire string that equals no schema value decodes
\* to Unknown without a failure.
C18_EnumUnknownFirst ==
    (cpc \in {"emitted", "decoded"} /\ declared.kind = "Enum") =>
        LET values == declared.enumValues
            cases == EnumCaseIdentifiers(emitted)
            mapping == EnumMapping(emitted, MappingStart(emitted, declared.name))
        IN /\ Len(cases) = Len(values) + 1
           /\ \A j \in DOMAIN values :
                 cases[j] = [identifier |-> screamingSnakeCaseToPascalCase(values[j].name),
                             synthetic |-> FALSE]
           /\ cases[Len(values) + 1] = [identifier |-> unknownCaseName, synthetic |-> TRUE]
           /\ Len(mapping) = Len(values) + 1
           /\ mapping[1].enumerator = unknownCaseName /\ mapping[1].wire.kind = "null"
           /\ \A j \in DOMAIN values :
                 /\ mapping[j + 1].enumerator = screamingSnakeCaseToPascalCase(values[j].name)
                 /\ mapping[j + 1].wire.kind = "string"
                 /\ mapping[j + 1].wire.chars = values[j].name
           /\ (cpc = "decoded" /\ payload.kind = "string"
                  /\ \A j \in DOMAIN values : values[j].name # payload.chars) =>
                 /\ ~outcome.thrown
                 /\ outcome.value.entry = 1
                 /\ outcome.value.enumerator = unknownCaseName

\* enum Color { RED DARK_RED } decoded the wire string "BLUE" to Unknown
C18_Witness ==
    /\ cpc = "decoded"
    /\ declared.kind = "Enum"
    /\ Len(declared.enumValues) = 2
    /\ declared.enumValues[1].name = NameRed /\ declared.enumValues[2].name = NameDarkRed
    /\ payload.kind = "string" /\ payload.chars = NameBlue
    /\ outcome.value.enumerator = unknownCaseName

\* a list of objects that each hold a string under message
IsErrorList(json) ==
    /\ json.kind = "array"
    /\ \A j \in DOMAIN json.items :
          /\ HasKey(json.items[j], MessageKey)
          /\ json.items[j].members[MessageKey].kind = "string"

\* the response payload with another entry, or none, under data
WithData(json, data) ==
    JObject([key \in (DOMAIN json.members \ {DataKey}) \cup DOMAIN data |->
                IF key \in DOMAIN data THEN data[key] ELSE json.members[key]])

SameOutcome(a, b) ==
    /\ a.thrown = b.thrown
    /\ a.thrown => a.error = b.error
    /\ ~a.thrown => a.value = b.value

HasEncoder(text, typeName) ==
    \E j \in DOMAIN text :
        /\ j > 5
        /\ IsLiteralAt(text, j - 5, "inline void to_json(") /\ text[j - 2] = Str(typeName)[1]
        /\ IsLiteralAt(text, j - 1, " const & value) {\n")

IsPlainObject == declared.kind = "Object" /\ ~IsOperation(declared)

\* C20 as stated: every generated Object type and every generated
\* InputObject type has a generated encoder and a generated decoder, and
\* decoding what the encoder produced yields the original value.
C20_RoundTripPerType ==
    (cpc # "ready" /\ (IsPlainObject \/ declared.kind = "InputObject")) =>
        /\ HasEncoder(emitted, declared.name)
        /\ HasDecoder(emitted, declared.name)
        /\ cpc = "decodedBack" => (~outcome.thrown /\ outcome.value = payload)

\* C20, amended: an Object type is generated with a decoder only and an
\* InputObject type with an encoder only.  The encoder of an InputObject
\* writes one key per field, null for an absent optional member; the decoder
\* of an Object that declares the same fields turns that wire form into a
\* value equal to the original member by member, for required members and
\* for absent optional ones.
C20_RoundTrip ==
    /\ (cpc # "ready" /\ IsPlainObject) =>
          HasDecoder(emitted, declared.name) /\ ~HasEncoder(emitted, declared.name)
    /\ (cpc # "ready" /\ declared.kind = "InputObject") =>
          HasEncoder(emitted, declared.name) /\ ~HasDecoder(emitted, declared.name)
    /\ cpc = "encoded" =>
          /\ declared.inputFields # <<>> =>
                /\ outcome.value.kind = "object"
                /\ DOMAIN outcome.value.members = DOMAIN payload
          /\ \A name \in DOMAIN payload :
                LET wire == outcome.value.members[name] IN
                IF payload[name].has
                THEN wire.kind = "number" /\ wire.chars = payload[name].chars
                ELSE wire.kind = "null"
    /\ cpc = "decodedBack" =>
          /\ ~outcome.thrown
          /\ DOMAIN outcome.value = DOMAIN payload
          /\ \A name \in DOMAIN payload : outcome.value[name] = payload[name]

\* input Input { a: Int!  b: Int } with a = 7 and b absent was encoded, and
\* type Thing { a: Int!  b: Int } decoded the wire form to a = 7, b absent
C20_Witness ==
    /\ cpc = "decodedBack"
    /\ Len(declared.inputFields) = 2
    /\ declared.inputFields[1] = InputValue(NonNullOf(IntRef), NameA, "")
    /\ declared.inputFields[2] = InputValue(IntRef, NameB, "")
    /\ payload[NameA] = CppValue(Seven) /\ payload[NameB] = CppNullopt
    /\ ~outcome.thrown
    /\ outcome.value[NameA] = CppValue(Seven) /\ outcome.value[NameB] = CppNullopt


\* ---------------------------------------------------------------------------
\* BoxedOptional.hpp: a heap-allocated optional, BoxedOptional<T>, whose T may
\* hold a BoxedOptional<T> of its own, as TypeRef does with ofType.
\* A cell is what new returned; it holds a T, here the name of a TypeRef and
\* the value pointer of its ofType box. Cells are never handed out twice.
\* ---------------------------------------------------------------------------

MaxCells == 4
BoxNames == {"a", "b"}
CellNames == {"x"}
nullptr == 0

\* the BoxedOptional object of that name
Named(name) == [place |-> name, cell |-> 0]
\* the BoxedOptional member ofType of the T held in the cell
Nested(cell) == [place |-> "ofType", cell |-> cell]

Memory(bs, h, f) == [boxes |-> bs, heap |-> h, faults |-> f]

\* the box has been constructed and not yet destroyed
IsAlive(m, box) ==
    IF box.cell = 0 THEN m.boxes[box.place].alive ELSE ~m.heap[box.cell].freed

\* T * value
Pointer(m, box) ==
    IF box.cell = 0 THEN m.boxes[box.place].value ELSE m.heap[box.cell].ofType

Fault(m, what) == [m EXCEPT !.faults = @ \cup {what}]

\* value = pointer, in that box
SetPointer(m, box, pointer) ==
    IF ~IsAlive(m, box) THEN Fault(m, "writeAfterFree")
    ELSE IF box.cell = 0 THEN [m EXCEPT !.boxes[box.place].value = pointer]
    ELSE [m EXCEPT !.heap[box.cell].ofType = pointer]

\* optional.value as the operation reads it: the member of a destroyed box
\* holds whatever the build left there, the null that reset wrote or the
\* pointer from before the operation
ReadPointer(m, box, before, stale) ==
    IF IsAlive(m, box) THEN Pointer(m, box)
    ELSE IF stale THEN Pointer(before, box) ELSE nullptr

ReadOf(m, box) == IF IsAlive(m, box) THEN m ELSE Fault(m, "readAfterFree")

\* delete value: ~T destroys the nested box, which resets it, then the cell is freed
RECURSIVE Delete(_, _)
Delete(m, pointer) ==
    IF m.heap[pointer].freed THEN Fault(m, "freedTwice")
    ELSE LET nested == m.heap[pointer].ofType
             inner == IF nested # nullptr THEN Delete(m, nested) ELSE m
         IN  [inner EXCEPT !.heap[pointer].freed = TRUE,
                           !.heap[pointer].ofType = nullptr]

reset(m, box) ==
    LET pointer == Pointer(m, box)
    IN  IF pointer # nullptr THEN SetPointer(Delete(m, pointer), box, nullptr) ELSE m

\* new T{*pointer}: the cell is allocated, then T's copy constructor copies
\* the name and copy-constructs the nested box
RECURSIVE New(_, _, _, _)
RECURSIVE copyValueFrom(_, _, _, _, _)
New(m, pointer, before, stale) ==
    LET cell == Len(m.heap) + 1
        read == IF m.heap[pointer].freed THEN Fault(m, "readAfterFree") ELSE m
        allocated == [read EXCEPT !.heap = Append(@, [freed |-> FALSE,
                                                      name |-> m.heap[pointer].name,
                                                      ofType |-> nullptr])]
    IN  copyValueFrom(allocated, Nested(cell), Nested(pointer), before, stale)

\* a copy that shares the other's cell
shareValueFrom(m, box, optional, before, stale) ==
    SetPointer(ReadOf(m, optional), box, ReadPointer(m, optional, before, stale))

copyValueFrom(m, box, optional, before, stale) ==
    LET pointer == ReadPointer(m, optional, before, stale)
        read == ReadOf(m, optional)
    IN  IF pointer # nullptr
        THEN SetPointer(New(read, pointer, before, stale), box, Len(read.heap) + 1)
        ELSE read

stealValueFrom(m, box, optional, before, stale) ==
    LET pointer == ReadPointer(m, optional, before, stale)
        read == ReadOf(m, optional)
    IN  IF pointer # nullptr
        THEN SetPointer(SetPointer(read, box, pointer), optional, nullptr)
        ELSE read

\* new T{value} for a T given by value, whose own ofType is empty
NewValue(m, name) ==
    [m EXCEPT !.heap = Append(@, [freed |-> FALSE, name |-> name, ofType |-> nullptr])]

Alive(m, name) == [m EXCEPT !.boxes[name] = [alive |-> TRUE, value |-> nullptr]]
Dead(m, name) == [m EXCEPT !.boxes[name].alive = FALSE]

\* the boxes an expression can name: a, b, a->ofType, a->ofType->ofType, ...
RECURSIVE BoxesFrom(_, _)
BoxesFrom(m, box) ==
    {box} \cup (IF Pointer(m, box) = nullptr THEN {}
                ELSE BoxesFrom(m, Nested(Pointer(m, box))))

AliveNames(m) == {name \in BoxNames : m.boxes[name].alive}
Reachable(m) == UNION {BoxesFrom(m, Named(name)) : name \in AliveNames(m)}

\* the boxes that resetting the box destroys: those inside its value
Inside(m, box) == BoxesFrom(m, box) \ {box}

\* what the read of optional.value can give after the target was reset
Reads(m, box, optional) == IF optional \in Inside(m, box) THEN BOOLEAN ELSE {FALSE}

\* a freed cell holds nothing that an operation with defined behaviour reads
Released(h) ==
    [cell \in DOMAIN h |-> IF h[cell].freed
                           THEN [freed |-> TRUE, name |-> "", ofType |-> nullptr]
                           ELSE h[cell]]

Current == Memory(boxes, heap, faults)

BoxInit ==
    /\ boxes = [name \in BoxNames |-> [alive |-> FALSE, value |-> nullptr]]
    /\ heap = <<>>
    /\ faults = {}
    /\ last = NoOperation
    /\ SortIdle
    /\ QueryIdle
    /\ GenIdle

\* the operation ran to its end on the memory, which has room for what it allocated
Becomes(op, result) ==
    /\ faults = {}
    /\ Len(result.heap) <= MaxCells
    /\ boxes' = result.boxes
    /\ heap' = IF result.faults = {} THEN Released(result.heap) ELSE result.heap
    /\ faults' = result.faults
    /\ last' = op
    /\ UNCHANGED <<sortVars, queryVars, genVars>>

\* BoxedOptional name;
DefaultConstructs(name) ==
    /\ ~boxes[name].alive
    /\ Becomes("default", Alive(Current, name))

\* BoxedOptional name{value};
ValueConstructs(name, value) ==
    /\ ~boxes[name].alive
    /\ Becomes("value", SetPointer(NewValue(Alive(Current, name), value),
                                   Named(name), Len(heap) + 1))

\* BoxedOptional name{optional};
CopyConstructs(name, optional) ==
    /\ ~boxes[name].alive
    /\ Becomes("copy", copyValueFrom(Alive(Current, name), Named(name), optional,
                                     Current, FALSE))

\* BoxedOptional name{std::move(optional)};
MoveConstructs(name, optional) ==
    /\ ~boxes[name].alive
    /\ Becomes("move", stealValueFrom(Alive(Current, name), Named(name), optional,
                                      Current, FALSE))

\* box = optional;
CopyAssigns(box, optional, stale) ==
    Becomes("copyAssign",
            copyValueFrom(reset(Current, box), box, optional, Current, stale))

\* box = std::move(optional);
MoveAssigns(box, optional, stale) ==
    Becomes("moveAssign",
            stealValueFrom(reset(Current, box), box, optional, Current, stale))

\* box.reset();
Resets(box) == Becomes("reset", reset(Current, box))

\* the named box goes out of scope
Destroys(name) ==
    /\ boxes[name].alive
    /\ Becomes("destroy", Dead(reset(Current, Named(name)), name))

DefaultConstruct == \E name \in BoxNames : DefaultConstructs(name)

ValueConstruct == \E name \in BoxNames, value \in CellNames : ValueConstructs(name, value)

CopyConstruct ==
    \E name \in BoxNames, optional \in Reachable(Current) : CopyConstructs(name, optional)

MoveConstruct ==
    \E name \in BoxNames, optional \in Reachable(Current) : MoveConstructs(name, optional)

CopyAssign ==
    \E box \in Reachable(Current), optional \in Reachable(Current) :
        \E stale \in Reads(Current, box, optional) : CopyAssigns(box, optional, stale)

MoveAssign ==
    \E box \in Reachable(Current), optional \in Reachable(Current) :
        \E stale \in Reads(Current, box, optional) : MoveAssigns(box, optional, stale)

Reset == \E box \in Reachable(Current) : Resets(box)

Destroy == \E name \in BoxNames : Destroys(name)

BoxNext ==
    \/ DefaultConstruct
    \/ ValueConstruct
    \/ CopyConstruct
    \/ MoveConstruct
    \/ CopyAssign
    \/ MoveAssign
    \/ Reset
    \/ Destroy

BoxSpec == BoxInit /\ [][BoxNext]_vars


\* ---------------------------------------------------------------------------
\* What the BoxedOptional operations leave behind
\* ---------------------------------------------------------------------------

\* the T a pointer leads to, with the T inside its ofType, and so on
RECURSIVE ValueOf(_, _)
ValueOf(m, pointer) ==
    IF pointer = nullptr THEN <<>>
    ELSE <<m.heap[pointer].name>> \o ValueOf(m, m.heap[pointer].ofType)

\* *box, or nothing when the box has no value
Held(m, box) == ValueOf(m, Pointer(m, box))

has_value(m, box) == Pointer(m, box) # nullptr

\* the cell did not exist before the step
IsNewCell(pointer) == pointer \in DOMAIN heap' /\ pointer \notin DOMAIN heap

\* every cell that existed before the step holds what it held
CellsKept == \A pointer \in DOMAIN heap : heap'[pointer] = heap[pointer]

\* C21: a default-constructed box has no value; a box constructed from a
\* value, or copy-constructed from a box that has a value, points to a cell
\* that did not exist before (so at another address than the source's) and
\* that holds an equal value, and the source and every older cell are as they
\* were; a box move-constructed from a box that has a value points to the
\* very cell the source pointed to, and the source has no value afterwards.
C21_ValueSemantics ==
    [][/\ \A name \in BoxNames :
            DefaultConstructs(name) =>
                /\ boxes'[name].alive
                /\ ~has_value(Current', Named(name))
       /\ \A name \in BoxNames, value \in CellNames :
            ValueConstructs(name, value) =>
                /\ IsNewCell(boxes'[name].value)
                /\ Held(Current', Named(name)) = <<value>>
                /\ CellsKept
       /\ \A name \in BoxNames, optional \in Reachable(Current) :
            (CopyConstructs(name, optional) /\ has_value(Current, optional)) =>
                /\ IsNewCell(boxes'[name].value)
                /\ boxes'[name].value # Pointer(Current, optional)
                /\ Held(Current', Named(name)) = Held(Current, optional)
                /\ Pointer(Current', optional) = Pointer(Current, optional)
                /\ Held(Current', optional) = Held(Current, optional)
                /\ CellsKept
       /\ \A name \in BoxNames, optional \in Reachable(Current) :
            (MoveConstructs(name, optional) /\ has_value(Current, optional)) =>
                /\ boxes'[name].value = Pointer(Current, optional)
                /\ ~has_value(Current', optional)
                /\ Held(Current', Named(name)) = Held(Current, optional)
                /\ DOMAIN heap' = DOMAIN heap
      ]_vars

\* b has just been copy-constructed from a, whose value holds a value in turn
C21_Witness ==
    /\ last = "copy"
    /\ faults = {}
    /\ boxes["a"].alive /\ boxes["b"].alive
    /\ boxes["a"].value # nullptr
    /\ boxes["b"].value > boxes["a"].value
    /\ Len(Held(Current, Named("a"))) = 2
    /\ Held(Current, Named("b")) = Held(Current, Named("a"))


\* ---------------------------------------------------------------------------
\* shouldPassByReferenceToRequestFunction on the TypeRef of a query variable
\* ---------------------------------------------------------------------------

NameEither == <<"E", "i", "t", "h", "e", "r">>

\* a NonNull, a List whose ofType is empty
HollowNonNull == TypeRef("NonNull", <<>>, <<>>)
HollowList == TypeRef("List", <<>>, <<>>)

\* the TypeRefs under the wrappers: every named kind, the five built-in
\* scalars, a custom scalar, and the NonNull and the List that wrap nothing
PassBases ==
    RenderBases \cup {NamedRef("Interface", NameIface), NamedRef("Union", NameEither),
                      NamedRef("InputObject", NameInput), HollowNonNull, HollowList}

RECURSIVE PassRefs(_)
PassRefs(n) ==
    IF n = 0 THEN PassBases
    ELSE LET inner == PassRefs(n - 1) IN
         inner \cup {ListOf(t) : t \in inner}
               \cup {NonNullOf(t) : t \in {u \in inner : u.kind # "NonNull"}}

PassInit ==
    /\ typeRef \in PassRefs(MaxWraps)
    /\ cppName = NotRendered
    /\ graphqlName = <<>>
    /\ rpc = "variable"
    /\ passing = NotRendered
    /\ unwrapped = <<>>
    /\ SortIdle
    /\ QueryIdle
    /\ SchemaIdle
    /\ CodecIdle
    /\ BoxIdle

\* the call of line 712 on the type of a variable
DecidePassing ==
    /\ rpc = "variable"
    /\ rpc' = "decided"
    /\ passing' = shouldPassByReferenceToRequestFunction(typeRef)
    /\ UNCHANGED <<typeRef, cppName, graphqlName, unwrapped, sortVars, queryVars,
                   schemaVars, codecVars, boxVars>>

\* typeRef.underlyingType(), as lines 104 and 575 call it
Unwrap ==
    /\ unwrapped = <<>>
    /\ unwrapped' = <<underlyingType(typeRef)>>
    /\ UNCHANGED <<typeRef, cppName, graphqlName, rpc, passing, sortVars, queryVars,
                   schemaVars, codecVars, boxVars>>

PassNext == DecidePassing \/ Unwrap

PassSpec == PassInit /\ [][PassNext]_vars

\* the TypeRef under the outer NonNull wrappers
RECURSIVE WithoutNonNull(_)
WithoutNonNull(type) ==
    IF type.kind = "NonNull" /\ type.ofType # <<>> THEN WithoutNonNull(type.ofType[1])
    ELSE type

IsSmallScalar(type) ==
    type.kind = "Scalar" /\ type.name[1] \in {IntName, NameFloat, NameBoolean}

IsTextScalar(type) ==
    type.kind = "Scalar" /\ type.name[1] \in {NameString, NameID}

\* C22: looking through NonNull wrappers, the function returns false exactly
\* for Int, Float and Boolean scalars and for Enums; it returns true for
\* String and ID scalars, for every List and for Object, Interface, Union and
\* InputObject types; NonNull(t) gets the result of t; a NonNull that wraps
\* nothing is an error.
C22_PassByReference ==
    rpc = "decided" =>
        LET under == WithoutNonNull(typeRef) IN
        /\ (~passing.failed /\ passing.generated = FALSE)
               <=> (IsSmallScalar(under) \/ under.kind = "Enum")
        /\ (IsTextScalar(under)
            \/ under.kind \in {"List", "Object", "Interface", "Union", "InputObject"})
               => (~passing.failed /\ passing.generated = TRUE)
        /\ typeRef.kind # "NonNull" =>
               shouldPassByReferenceToRequestFunction(NonNullOf(typeRef)) = passing
        /\ under = HollowNonNull =>
               (passing.failed
                /\ passing.what = Lit("Nonnull should be wrapped a type"))

\* a required Boolean was decided to be passed by value
C22_Witness ==
    /\ rpc = "decided"
    /\ typeRef = NonNullOf(NamedRef("Scalar", NameBoolean))
    /\ passing = Rendered(FALSE)


\* ---------------------------------------------------------------------------
\* generateTypes as a run, from the moment the sorter of line 908 has returned
\* or thrown: for the query type, the calls of generateQueryFields that its
\* fields start, one frame per call
\* ---------------------------------------------------------------------------

MaxDepth == 6

\* a call that generateQueryFields is about to make: typeMap.at(name.value())
\* and the ignoredFields argument
Request(name, ignoredFields) == [name |-> name, ignored |-> ignoredFields]

RECURSIVE FieldRequests(_, _, _)
\* the calls of generateQueryField for the fields from j on: line 580
FieldRequests(fields, j, ignoredFields) ==
    IF j > Len(fields) THEN <<>>
    ELSE (IF ~IsIgnored(fields[j], ignoredFields)
             /\ HasSelectionSet(underlyingType(fields[j].type))
          THEN <<Request(underlyingType(fields[j].type).name, <<>>)>>
          ELSE <<>>)
         \o FieldRequests(fields, j + 1, ignoredFields)

\* the calls of the loop over possibleTypes: line 619
PossibleTypeRequests(type) ==
    [j \in 1..Len(type.possibleTypes) |-> Request(type.possibleTypes[j].name, type.fields)]

\* the calls generateQueryFields(type, ..., ignoredFields, ...) makes, in order
Requests(type, ignoredFields) ==
    IF type.possibleTypes # <<>>
    THEN FieldRequests(type.fields, 1, ignoredFields) \o PossibleTypeRequests(type)
    ELSE FieldRequests(type.fields, 1, ignoredFields)

\* name.value() and typeMap.at(...) both succeed
IsFound(request, tm) ==
    IF request.name = <<>> THEN FALSE ELSE request.name[1] \in DOMAIN tm

Frame(type, ignoredFields) ==
    [type |-> type.name, ignored |-> ignoredFields, calls |-> Requests(type, ignoredFields)]

\* the sorted types that generateTypes takes for the query type: lines 952-960
OperationTypes(sorted) ==
    {i \in DOMAIN sorted : sorted[i].kind = "Object" /\ sorted[i].name = NameQuery}

\* generateOperationTypes: every field of the type starts generateQueryField
RootFrame(type) ==
    [type |-> type.name, ignored |-> <<>>, calls |-> FieldRequests(type.fields, 1, <<>>)]

\* references to Thing and Iface whose kind is, or is not, that of a custom type
TermTargets == {NameThing, NameIface}
TermRefs ==
    {NamedRef(kind, name) : kind \in {"Object", "Scalar", "List"}, name \in TermTargets}
    \cup {NamedRef("Scalar", IntName), NonNullOf(ListOf(NamedRef("Object", NameThing)))}

OneOrNone(S) == {<<>>} \cup {<<x>> : x \in S}

\* type Query { f }, type Thing { t }, interface Iface with a possible type
TermInputs ==
    {<<Type("Object", NameQuery, <<Field(q, <<"f">>, "", <<>>)>>, <<>>, <<>>),
       Type("Object", NameThing, [j \in DOMAIN t |-> Field(t[j], <<"t">>, "", <<>>)], <<>>, <<>>),
       Type("Interface", NameIface, <<>>, <<>>, possible)>> :
        q \in TermRefs, t \in OneOrNone(TermRefs), possible \in OneOrNone(TermRefs)}

\* line 908 has run on the types of the schema
TermInit ==
    /\ types \in TermInputs
    /\ typesToDependents = EmptyMap
    /\ typesToDependencies = EmptyMap
    /\ \E sorted \in {SortOutcome(types)} :
          /\ sortedTypes = sorted.sorted
          /\ pc = IF sorted.thrown THEN "thrown" ELSE "done"
    /\ passes = <<>>
    /\ QueryIdle
    /\ GenIdle
    /\ BoxIdle

\* lines 910-914 and the first operation type of the loop of line 951
StartExpansion ==
    /\ pc = "done"
    /\ qpc = "idle"
    /\ typeMap' = TypeMapOf(types)
    /\ frames' = [j \in 1..Cardinality(OperationTypes(sortedTypes)) |->
                     RootFrame(sortedTypes[CHOOSE i \in OperationTypes(sortedTypes) : TRUE])]
    /\ qpc' = IF OperationTypes(sortedTypes) = {} THEN "returned" ELSE "expand"
    /\ UNCHANGED <<rootField, rootOperation, rootIndentation, document, sortVars, genVars,
                   boxVars>>

\* the next call of the innermost generateQueryFields finds its type
Call ==
    /\ qpc = "expand"
    /\ frames # <<>>
    /\ Len(frames) < MaxDepth
    /\ LET top == frames[Len(frames)] IN
        /\ top.calls # <<>>
        /\ IsFound(top.calls[1], typeMap)
        /\ frames' = [frames EXCEPT ![Len(frames)].calls = Tail(@)]
                       \o <<Frame(typeMap[top.calls[1].name[1]], top.calls[1].ignored)>>
    /\ UNCHANGED <<rootField, rootOperation, rootIndentation, typeMap, document, qpc,
                   sortVars, genVars, boxVars>>

\* name.value() or typeMap.at throws, and the exception leaves generateTypes
CallThrows ==
    /\ qpc = "expand"
    /\ frames # <<>>
    /\ LET top == frames[Len(frames)] IN
        /\ top.calls # <<>>
        /\ ~IsFound(top.calls[1], typeMap)
    /\ frames' = <<>>
    /\ qpc' = "threw"
    /\ UNCHANGED <<rootField, rootOperation, rootIndentation, typeMap, document,
                   sortVars, genVars, boxVars>>

\* the innermost call has made all its calls and returns
Return ==
    /\ qpc = "expand"
    /\ frames # <<>>
    /\ frames[Len(frames)].calls = <<>>
    /\ frames' = SubSeq(frames, 1, Len(frames) - 1)
    /\ qpc' = IF Len(frames) = 1 THEN "returned" ELSE "expand"
    /\ UNCHANGED <<rootField, rootOperation, rootIndentation, typeMap, document,
                   sortVars, genVars, boxVars>>

\* the calls nest without end until a resource gives out: the call stack
\* (the process is killed, nothing is returned or thrown) or the heap of the
\* ever longer variablePrefix strings (std::bad_alloc leaves generateTypes)
Exhaust ==
    /\ qpc = "expand"
    /\ frames # <<>>
    /\ Len(frames) = MaxDepth
    /\ LET top == frames[Len(frames)] IN
        /\ top.calls # <<>>
        /\ IsFound(top.calls[1], typeMap)
    /\ \/ qpc' = "killed" /\ frames' = frames
       \/ qpc' = "threw" /\ frames' = <<>>
    /\ UNCHANGED <<rootField, rootOperation, rootIndentation, typeMap, document,
                   sortVars, genVars, boxVars>>

TermNext ==
    \/ StartExpansion
    \/ Call
    \/ CallThrows
    \/ Return
    \/ Exhaust

\* a run of the program goes on while it has a next step
TermSpec == TermInit /\ [][TermNext]_vars /\ WF_vars(TermNext)

\* generateTypes has returned its text or an exception has left it
HasTerminated == pc = "thrown" \/ qpc \in {"returned", "threw"}

\* C23: for every finite schema generateTypes terminates, with the text or
\* with an error: every run reaches the return or a throw.
C23_Terminates == <>HasTerminated

\* the same call, with the same ignored fields, is in progress twice
IsRepeating ==
    \E i, j \in DOMAIN frames :
        i < j /\ frames[i].type = frames[j].type /\ frames[i].ignored = frames[j].ignored

\* the calls nest up to the bound only by repeating themselves, so only a
\* run that would nest without end is exhausted
DeepOnlyByRepeating == Len(frames) = MaxDepth => IsRepeating


\* ---------------------------------------------------------------------------
\* The passes of the sorter, step by step
\* ---------------------------------------------------------------------------

\* the entries whose dependency set is empty when the pass begins
ReadyAtStart ==
    {k \in DOMAIN typesToDependencies : typesToDependencies[k].dependencies = {}}

\* C24 as stated: a pass appends exactly the types whose dependency set was
\* empty when the pass began, in name order; a type whose last dependency is
\* appended during the pass waits for a later pass.
C24_LevelByLevel ==
    [][passes' # passes => passes'[Len(passes')] = OrderedKeys(ReadyAtStart)]_vars

\* C24 amended: a pass walks the map in name order and appends a type when
\* its dependency set is empty at the moment the walk reaches it, that is
\* when all its dependencies of the beginning of the pass were appended
\* earlier in this pass, under smaller names; the appended names are missing
\* from the map and from every remaining dependency set after the pass.
C24_PassStructure ==
    [][passes' # passes =>
        LET added == passes'[Len(passes')]
            names == {added[j] : j \in DOMAIN added}
        IN  /\ \A i, j \in DOMAIN added : i < j => StringLess(added[i], added[j])
            /\ \A k \in DOMAIN typesToDependencies :
                  k \in names <=>
                      typesToDependencies[k].dependencies
                          \subseteq {a \in names : StringLess(a, k)}
            /\ DOMAIN typesToDependencies' = DOMAIN typesToDependencies \ names
            /\ \A n \in DOMAIN typesToDependencies' :
                  typesToDependencies'[n].dependencies
                      = typesToDependencies[n].dependencies \ names
      ]_vars

\* a pass appended a type and, behind it, a type that depends on it
C24_Witness ==
    \E i \in DOMAIN passes : \E a, b \in DOMAIN passes[i] :
        /\ a < b
        /\ \E T, D \in CustomTypes :
              /\ T.name = passes[i][b]
              /\ D.name = passes[i][a]
              /\ DependsOn(T, D)


\* C25: a dependency is recorded only on a custom type, of custom kind and
\* with a name that does not start with "__"; a reference to a built-in
\* scalar or to a meta type adds no edge, so the circular-dependency error is
\* raised only when the custom types do depend on each other in a cycle.
C25_OnlyCustomDependencies ==
    /\ pc # "build" =>
          \A k \in DOMAIN typesToDependencies :
              \A n \in typesToDependencies[k].dependencies :
                  ~StartsWithDoubleUnderscore(n)
    /\ pc = "thrown" => HasCycle


\* ---------------------------------------------------------------------------
\* underlyingType on every TypeRef of PassSpec
\* ---------------------------------------------------------------------------

IsWrapper(type) == type.kind \in {"List", "NonNull"}

\* the TypeRef left when every outer List/NonNull that wraps a type is taken off
RECURSIVE StripWrappers(_)
StripWrappers(type) ==
    IF IsWrapper(type) /\ type.ofType # <<>> THEN StripWrappers(type.ofType[1]) ELSE type

C27_Assignment ==
    [][\A target \in AliveNames(Current), optional \in AliveNames(Current) :
          /\ CopyAssigns(Named(target), Named(optional), FALSE) =>
                /\ Held(Current', Named(target)) = Held(Current, Named(optional))
                /\ Held(Current', Named(optional)) = Held(Current, Named(optional))
          /\ MoveAssigns(Named(target), Named(optional), FALSE) =>
                Held(Current', Named(target)) = Held(Current, Named(optional))
      ]_vars


\* the boxes that exist: the named ones alive and the ofType of every T in a
\* cell that was not freed
LiveBoxes ==
    {Named(name) : name \in AliveNames(Current)}
    \cup {Nested(cell) : cell \in {c \in DOMAIN heap : ~heap[c].freed}}

\* the live boxes whose value points to the cell
Owners(cell) == {box \in LiveBoxes : Pointer(Current, box) = cell}

\* C28: after any sequence of operations, the source of an assignment being
\* nested inside the target's own value included, no cell is owned by two live
\* boxes, no cell was freed twice or read after it was freed, and every cell
\* not yet freed is owned by exactly one live box.
C28_SingleOwnership ==
    /\ faults = {}
    /\ \A cell \in DOMAIN heap :
          IF heap[cell].freed THEN Owners(cell) = {}
          ELSE Cardinality(Owners(cell)) = 1


\* the value names of the Enum are pairwise distinct
HasDistinctValueNames(type) ==
    \A i, j \in DOMAIN type.enumValues :
        i # j => type.enumValues[i].name # type.enumValues[j].name

\* C29: for an Enum type with pairwise distinct value names, the case
\* identifiers of the generated enum, the synthetic Unknown included, are
\* pairwise distinct.
C29_DistinctEnumCases ==
    (cpc \in {"emitted", "decoded"} /\ declared.kind = "Enum"
     /\ HasDistinctValueNames(declared)) =>
        LET cases == EnumCaseIdentifiers(emitted) IN
        \A i, j \in DOMAIN cases : i # j => cases[i].identifier # cases[j].identifier


-----------------------------------------------------------------------------
(* Declared and referenced variables of a document *)

\* the operation header of a returned document: the text before the first
\* " {\n"
OperationHeader ==
    LET q == document.query
        open == CHOOSE j \in DOMAIN q :
                    IsLiteralAt(q, j, " {\n") /\ \A k \in 1..(j - 1) : ~IsLiteralAt(q, k, " {\n")
    IN SubSeq(q, 1, open - 1)

\* `$name: Type` lines: the positions of their "$"
DeclarationPositions(text) == PositionsWhere(text, LAMBDA t, j : IsLiteralAt(t, j, "$"))

\* the names after the "$" of the header, in order
DeclaredNames ==
    LET positions == DeclarationPositions(OperationHeader)
    IN [i \in DOMAIN positions |-> OperationHeader[positions[i] + 1].text]

\* the names after the ": $" of the selection set, in order
UsedNames ==
    LET positions == BindingPositions(SelectionSet)
    IN [i \in DOMAIN positions |-> SelectionSet[positions[i] + 1].text]

\* the header has the parenthesized list
HasHeaderList == \E j \in DOMAIN OperationHeader : IsLiteralAt(OperationHeader, j, "(\n")

\* C30: in a returned document the variables declared in the operation header
\* are exactly the variables referenced in the selection set, each declared
\* once and in the order of the references, and the parenthesized header list
\* is omitted exactly when the selection references no variable.
C30_DeclaredEqualsUsed ==
    qpc = "returned" =>
        /\ DeclaredNames = UsedNames
        /\ \A i, j \in DOMAIN DeclaredNames : i # j => DeclaredNames[i] # DeclaredNames[j]
        /\ ~HasHeaderList <=> UsedNames = <<>>

====
